---- MODULE Spec2Model ----
(***************************************************************************)
(* Model of the content-generation core of press-release-tool:             *)
(*   - the provider router generateWithAI and the three provider adapters  *)
(*     (src/lib/ai-client.ts), as a state machine whose steps are the      *)
(*     awaited HTTP calls;                                                 *)
(*   - the compatibility scorer checkCompatibility                         *)
(*     (src/lib/error-handler.ts), as pure operators over strings that are *)
(*     sequences of characters;                                            *)
(*   - the proposals route and the two versions of the assist route, as    *)
(*     state machines whose steps are the parts of POST between awaits;    *)
(*   - the draft storage (src/lib/storage.ts) and the sections of the      *)
(*     editor with their AI assist, as state machines of the client.       *)
(***************************************************************************)
EXTENDS Integers, Sequences, FiniteSets, TLC

VARIABLES
    env,          \* process.env: the three credentials
    aiType,       \* the aiType argument of generateWithAI
    pc,           \* position of the generateWithAI call
    model,        \* index in `models` of the Gemini model being requested
    lastError,    \* generateWithGemini's lastError
    error,        \* the error caught from generateWithOpenAI (auto mode)
    claudeError,  \* the error caught from generateWithClaude (auto mode)
    requests,     \* history: the HTTP requests issued, <<provider, model>>
    adapterOut,   \* history: what each adapter call returned or threw
    result,       \* what generateWithAI returned or threw to its caller
    sc,           \* position of the checkCompatibility call
    argInput,     \* checkCompatibility's input: industry, description, features
    argTrends,    \* checkCompatibility's trends
    argAngle,     \* checkCompatibility's angle
    assessment,   \* what checkCompatibility returned
    op,           \* position of the proposals route's POST
    angleIx,      \* generateProposals: index in `angles` of the loop
    proposals,    \* generateProposals: the proposals array
    scores,       \* history: per angle, the score checkCompatibility gave it
    routerCalls,  \* history: per angle, how its generateWithAI call ended
    content,      \* history: per angle, what JSON.parse made of the provider text
    response,     \* what POST answered
    inputShape,   \* the body's input: which fields it holds and of what type
    abandoned,    \* whether the caller has given up the request
    ended,        \* history: per angle, how its iteration of the loop ended
    ap,           \* position of the assist route's POST
    body,         \* the request body: type, pressRelease, sectionContent
    aiError,      \* the message of the Error caught by catch (aiError)
    aiResponse,   \* aiResponse, the value generateWithAI resolved to
    assistResult, \* result
    assistResponse, \* what the assist route's POST answered
    hasWindow,    \* typeof window !== 'undefined': the code runs in a browser
    stored,       \* localStorage's item 'press-release-drafts'
    saved,        \* history: per id, the draft last given to saveDraft
    sections,     \* the store's currentPressRelease.sections
    usedIds,      \* history: the ids generateId has handed out
    inflight      \* per section, the render whose handleAIAssist is awaiting

routerVars == <<env, aiType, pc, model, lastError, error, claudeError,
                requests, adapterOut, result>>

scoreVars == <<sc, argInput, argTrends, argAngle, assessment>>

orchVars == <<op, angleIx, proposals, scores, routerCalls, content, response,
              inputShape, abandoned, ended>>

assistVars == <<ap, body, aiError, aiResponse, assistResult, assistResponse>>

handlerVars == <<orchVars, assistVars>>

draftVars == <<hasWindow, stored, saved>>

editorVars == <<sections, usedIds, inflight>>

clientVars == <<draftVars, editorVars>>

vars == <<routerVars, scoreVars, handlerVars, clientVars>>

-----------------------------------------------------------------------------
(* Bounds *)

\* The provider texts are drawn from 1..MaxText.
MaxText == 2

\* The features of an input are at most MaxFeatures of the sample features,
\* the trends at most MaxTrends of the sample trends.
MaxFeatures == 2
MaxTrends == 2

\* The line texts of a provider have at most MaxLines lines.
MaxLines == 2

-----------------------------------------------------------------------------
(* Provider adapters *)

None == [kind |-> "none"]

\* const models = [...] of generateWithGemini: four model identifiers.
NumModels == 4

Texts == 1..MaxText

\* What one fetch of generateWithOpenAI / generateWithClaude can come to:
\* a 2xx answer with content, a 2xx answer without content, a 2xx answer
\* whose body is no JSON, a non-2xx status, or a rejected fetch (network
\* failure, provider-level HTTP timeout).
HttpResponses ==
    [kind : {"content"}, text : Texts]
      \cup [kind : {"empty", "badjson", "http401", "http404", "http429", "network"}]

\* What one fetch of generateWithGemini can come to.  "json"/"html" is the
\* content type of a non-2xx answer; htmlKeyInvalid and htmlQuota are error
\* pages whose text holds 'API key not valid' / 'quota'.
GeminiResponses ==
    [kind : {"content"}, text : Texts]
      \cup [kind : {"empty", "nonjson", "dataError", "network",
                    "http404json", "http404html", "http429json", "http400json",
                    "htmlKeyInvalid", "htmlQuota"}]

\* The Error an adapter throws for a response that is no content.
ErrorOf(provider, m, resp) ==
    [kind |-> "error", provider |-> provider, model |-> m, resp |-> resp.kind]

\* error.message.includes('404'): the messages built from a 404 status hold
\* the status; the other messages of this model do not.
Mentions404(e) == e.resp \in {"http404json", "http404html"}

\* The failure kinds of the provider contract.
FailureKind(e) ==
    CASE e.resp \in {"http404json", "http404html", "http404", "noAvailableModel"}
             -> "ModelUnavailable"
      [] e.resp \in {"http429", "http429json", "htmlQuota"} -> "RateLimited"
      [] e.resp \in {"http401", "http400json", "htmlKeyInvalid"} -> "AuthRejected"
      [] e.resp \in {"empty", "badjson", "nonjson", "dataError"} -> "MalformedResponse"
      [] e.resp = "network" -> "Timeout"
      [] e.resp = "missingCredential" -> "MissingCredential"
      [] e.resp = "noProviderConfigured" -> "NoProviderConfigured"

-----------------------------------------------------------------------------
(* Provider router: generateWithAI *)

Providers == {"openai", "claude", "gemini"}

\* if (process.env.X_API_KEY): any non-empty string is truthy, a key of
\* blanks included.  For OpenAI and Claude a key of blanks behaves as a set
\* key (it is sent as it is), so only Gemini, whose adapter trims the key,
\* has the value "blank".
Truthy(key) == key # "none"

Envs == [openai : {"none", "set"}, claude : {"none", "set"},
         gemini : {"none", "blank", "set"}]

AiTypes == {"openai", "claude", "gemini", "auto"}

MissingCredential(provider) ==
    [kind |-> "error", provider |-> provider, model |-> 0, resp |-> "missingCredential"]

NoProviderConfigured ==
    [kind |-> "error", provider |-> "router", model |-> 0, resp |-> "noProviderConfigured"]

NoAvailableModel ==
    [kind |-> "error", provider |-> "gemini", model |-> 0, resp |-> "noAvailableModel"]

Returned(text) == [kind |-> "returned", content |-> text]

\* Mutant: with nothing configured the router calls OpenAI all the same.
FirstProvider_DefaultsToOpenAI(e) ==
    IF Truthy(e.claude) /\ ~Truthy(e.openai) THEN "claude"
    ELSE IF Truthy(e.gemini) /\ ~Truthy(e.openai) THEN "gemini"
    ELSE "openai"

\* auto: the provider called first.
FirstProvider(e) ==
    IF Truthy(e.openai) THEN "openai"
    ELSE IF Truthy(e.claude) THEN "claude"
    ELSE IF Truthy(e.gemini) THEN "gemini"
    ELSE "none"

\* Mutant: the catch of the OpenAI call goes to Gemini and forgets Claude.
AfterOpenAI_SkipsClaude(e) == IF Truthy(e.gemini) THEN "gemini" ELSE "none"

\* auto: the provider called in the catch of the OpenAI call.
AfterOpenAI(e) ==
    IF Truthy(e.claude) THEN "claude"
    ELSE IF Truthy(e.gemini) THEN "gemini"
    ELSE "none"

\* auto: the provider called in the catch of the Claude call.
AfterClaude(e) == IF Truthy(e.gemini) THEN "gemini" ELSE "none"

\* Mutant: the explicit branches fall back like the auto branch.
CatchesFailure_Always(t) == TRUE

\* Whether generateWithAI catches an adapter's failure: the explicit
\* branches have no try, the auto branches catch OpenAI's and Claude's.
CatchesFailure(t) == t = "auto"

\* Mutant: throw error where the code has throw claudeError.
RethrowAfterClaude_First(err, claudeErr) == err

\* The error thrown when Claude failed in the catch of the OpenAI call and
\* Gemini is not configured: throw claudeError.
RethrowAfterClaude(err, claudeErr) == claudeErr

\* Mutant: only a 404 continues the loop.
GeminiContinues_Only404(m, e) == Mentions404(e)

\* The for loop of generateWithGemini after model m failed with e: continue
\* on a 404, continue while a model is left, else throw.
GeminiContinues(m, e) == Mentions404(e) \/ m < NumModels

\* Mutant: the failed model is requested again.
GeminiNextModel_Same(m) == m

\* The next iteration of for (const model of models).
GeminiNextModel(m) == m + 1

\* After the loop: a lastError that mentions 404 becomes the
\* no-available-model error.
GeminiAfterLoop(last) ==
    IF last.kind = "error" THEN (IF Mentions404(last) THEN NoAvailableModel ELSE last)
    ELSE [kind |-> "error", provider |-> "gemini", model |-> 0, resp |-> "allModelsFailed"]

\* No request is being handled by the proposals route.
OrchIdle ==
    /\ op = "idle"
    /\ angleIx = 0
    /\ proposals = <<>>
    /\ scores = <<>>
    /\ routerCalls = <<>>
    /\ content = <<>>
    /\ response = None
    /\ inputShape = None
    /\ abandoned = FALSE
    /\ ended = <<>>

\* No request is being handled by the assist route.
AssistIdle ==
    /\ ap = "idle"
    /\ body = None
    /\ aiError = None
    /\ aiResponse = None
    /\ assistResult = None
    /\ assistResponse = None

HandlersIdle == OrchIdle /\ AssistIdle

\* localStorage holds no item under the key; the item written by setItem.
NoItem == [present |-> FALSE, drafts |-> <<>>]

Item(list) == [present |-> TRUE, drafts |-> list]

\* No page of the client is open.
ClientIdle ==
    /\ hasWindow = FALSE
    /\ stored = NoItem
    /\ saved = <<>>
    /\ sections = <<>>
    /\ usedIds = {}
    /\ inflight = <<>>

\* return / throw of generateWithAI.
Finish(res, out) ==
    /\ pc' = "done"
    /\ result' = res
    /\ adapterOut' = out
    /\ UNCHANGED <<requests, model, lastError>>

\* Entering an adapter.  generateWithOpenAI and generateWithClaude fetch at
\* once (their own key check repeats the router's).  generateWithGemini
\* trims the key first and throws without a request when nothing is left;
\* every call of it is a `return await`, so what it throws reaches the caller.
Invoke(provider, out) ==
    IF provider = "gemini" /\ env.gemini # "set"
    THEN Finish(MissingCredential("gemini"),
                [out EXCEPT !.gemini = MissingCredential("gemini")])
    ELSE /\ pc' = provider
         /\ requests' = Append(requests, <<provider, IF provider = "gemini" THEN 1 ELSE 0>>)
         /\ model' = IF provider = "gemini" THEN 1 ELSE model
         /\ lastError' = IF provider = "gemini" THEN None ELSE lastError
         /\ adapterOut' = out
         /\ UNCHANGED result

\* The call of generateWithAI up to its first await.
Start ==
    /\ pc = "start"
    /\ UNCHANGED <<clientVars, scoreVars, handlerVars>>
    /\ UNCHANGED <<env, aiType, error, claudeError>>
    /\ IF aiType # "auto"
       THEN IF Truthy(env[aiType])
            THEN Invoke(aiType, adapterOut)
            ELSE Finish(MissingCredential(aiType), adapterOut)
       ELSE IF FirstProvider(env) # "none"
            THEN Invoke(FirstProvider(env), adapterOut)
            ELSE Finish(NoProviderConfigured, adapterOut)

\* The fetch of generateWithOpenAI settles.
OpenAIResponds ==
    /\ pc = "openai"
    /\ UNCHANGED <<clientVars, scoreVars, handlerVars>>
    /\ UNCHANGED <<env, aiType, claudeError>>
    /\ \E r \in HttpResponses :
         IF r.kind = "content"
         THEN /\ Finish(Returned(r.text), [adapterOut EXCEPT !.openai = Returned(r.text)])
              /\ UNCHANGED error
         ELSE LET e == ErrorOf("openai", 0, r)
                  out == [adapterOut EXCEPT !.openai = e]
              IN  IF ~CatchesFailure(aiType)
                  THEN Finish(e, out) /\ UNCHANGED error
                  ELSE /\ error' = e
                       /\ IF AfterOpenAI(env) # "none"
                          THEN Invoke(AfterOpenAI(env), out)
                          ELSE Finish(e, out)

\* The fetch of generateWithClaude settles.  In auto mode the call is either
\* the one in the catch of the OpenAI call (catch (claudeError)) or the
\* top-level one taken when OpenAI has no key (catch (error)).
ClaudeResponds ==
    /\ pc = "claude"
    /\ UNCHANGED <<clientVars, scoreVars, handlerVars>>
    /\ UNCHANGED <<env, aiType>>
    /\ \E r \in HttpResponses :
         IF r.kind = "content"
         THEN /\ Finish(Returned(r.text), [adapterOut EXCEPT !.claude = Returned(r.text)])
              /\ UNCHANGED <<error, claudeError>>
         ELSE LET e == ErrorOf("claude", 0, r)
                  out == [adapterOut EXCEPT !.claude = e]
              IN  IF ~CatchesFailure(aiType)
                  THEN Finish(e, out) /\ UNCHANGED <<error, claudeError>>
                  ELSE IF Truthy(env.openai)
                  THEN /\ claudeError' = e
                       /\ UNCHANGED error
                       /\ IF AfterClaude(env) # "none"
                          THEN Invoke(AfterClaude(env), out)
                          ELSE Finish(RethrowAfterClaude(error, e), out)
                  ELSE /\ error' = e
                       /\ UNCHANGED claudeError
                       /\ IF AfterClaude(env) # "none"
                          THEN Invoke(AfterClaude(env), out)
                          ELSE Finish(e, out)

\* The fetch of one model of generateWithGemini settles.
GeminiResponds ==
    /\ pc = "gemini"
    /\ UNCHANGED <<clientVars, scoreVars, handlerVars>>
    /\ UNCHANGED <<env, aiType, error, claudeError>>
    /\ \E r \in GeminiResponses :
         IF r.kind = "content"
         THEN /\ Finish(Returned(r.text), [adapterOut EXCEPT !.gemini = Returned(r.text)])
         ELSE LET e == ErrorOf("gemini", model, r)
              IN  IF GeminiContinues(model, e)
                  THEN IF model < NumModels
                       THEN /\ model' = GeminiNextModel(model)
                            /\ requests' = Append(requests, <<"gemini", model'>>)
                            /\ lastError' = e
                            /\ UNCHANGED <<pc, result, adapterOut>>
                       ELSE /\ pc' = "done"
                            /\ result' = GeminiAfterLoop(e)
                            /\ adapterOut' = [adapterOut EXCEPT !.gemini = GeminiAfterLoop(e)]
                            /\ lastError' = e
                            /\ UNCHANGED <<requests, model>>
                  ELSE /\ pc' = "done"
                       /\ result' = e
                       /\ adapterOut' = [adapterOut EXCEPT !.gemini = e]
                       /\ lastError' = e
                       /\ UNCHANGED <<requests, model>>

Init ==
    /\ env \in Envs
    /\ aiType \in AiTypes
    /\ pc = "start"
    /\ model = 0
    /\ lastError = None
    /\ error = None
    /\ claudeError = None
    /\ requests = <<>>
    /\ adapterOut = [p \in Providers |-> None]
    /\ result = None
    /\ sc = "idle"
    /\ argInput = [industry |-> <<>>, description |-> <<>>, features |-> <<>>]
    /\ argTrends = <<>>
    /\ argAngle = "trend-aligned"
    /\ assessment = None
    /\ HandlersIdle
    /\ ClientIdle

Next == Start \/ OpenAIResponds \/ ClaudeResponds \/ GeminiResponds

Spec == Init /\ [][Next]_vars

-----------------------------------------------------------------------------
(* Strings *)

\* A string is a sequence of characters.  Latin letters stand for
\* themselves; a Japanese character is written as its reading with a prefix:
\* "j:" kanji, "h:" hiragana, "k:" katakana.  "sp" is a white-space
\* character, "touten" the comma, "nakaguro" the middle dot, "kuten" the
\* full stop, "exclam" and "question" the full-width ! and ?.

Min(a, b) == IF a < b THEN a ELSE b

\* String.prototype.toLowerCase, character by character.
Lower(c) ==
    CASE c = "A" -> "a"
      [] c = "I" -> "i"
      [] c = "T" -> "t"
      [] OTHER -> c

ToLowerCase(s) == [i \in 1..Len(s) |-> Lower(s[i])]

\* String.prototype.includes: the empty string is included in every string.
Includes(s, sub) ==
    \E i \in 0..(Len(s) - Len(sub)) : SubSeq(s, i + 1, i + Len(sub)) = sub

\* String.prototype.substring(0, n).
Prefix(s, n) == SubSeq(s, 1, Min(n, Len(s)))

\* String.prototype.split on a character class: the pieces between the
\* separators, empty pieces kept.
RECURSIVE SplitFrom(_, _, _, _)
SplitFrom(s, seps, i, piece) ==
    IF i > Len(s) THEN <<piece>>
    ELSE IF s[i] \in seps THEN <<piece>> \o SplitFrom(s, seps, i + 1, <<>>)
    ELSE SplitFrom(s, seps, i + 1, Append(piece, s[i]))

Split(s, seps) == SplitFrom(s, seps, 1, <<>>)

\* The elements of an array; Array.prototype.some(p) is \E x \in Elements(a) : p.
Elements(seq) == {seq[i] : i \in 1..Len(seq)}

-----------------------------------------------------------------------------
(* Compatibility scorer: checkCompatibility *)

IndustryPoints == 30
DescriptionPoints == 30
FeaturePoints == 20
AnglePoints == 20
SeasonalBaseline == 10
CompatibleThreshold == 30
MaxScore == 100
KeywordLimit == 10
FeaturePrefixLength == 3
MinKeywordLength == 1

\* /[、・\s]/
IndustrySeparators == {"touten", "nakaguro", "sp"}

\* /[\s、。！？]/
DescriptionSeparators == {"sp", "touten", "kuten", "exclam", "question"}

commonWords ==
    << <<"h:no">>, <<"h:wo">>, <<"h:ni">>, <<"h:ga">>, <<"h:ha">>, <<"h:to">>,
       <<"h:de">>, <<"h:mo">>, <<"h:ka", "h:ra">>, <<"h:ma", "h:de">>,
       <<"h:de", "h:su">>, <<"h:ma", "h:su">>, <<"h:su", "h:ru">>,
       <<"h:ko", "h:to">> >>

socialKeywords ==
    << <<"j:sha", "j:kai">>, <<"j:ka", "j:dai">>, <<"j:kai2", "j:ketsu">>,
       <<"j:kou", "j:ken">>, <<"j:shi", "j:en">>, <<"j:kan", "j:kyou">>,
       <<"j:ken2", "j:kou2">>, <<"j:kyou2", "j:iku">>, <<"j:hin", "j:kon">> >>

seasonalKeywords ==
    << <<"j:haru">>, <<"j:natsu">>, <<"j:aki">>, <<"j:fuyu">>,
       <<"j:ki", "j:setsu">>, <<"j:ji", "j:ki2">>,
       <<"k:ta", "k:i", "k:mi", "k:n", "k:gu">> >>

uniqueKeywords ==
    << <<"j:doku", "j:ji2">>, <<"j:shin">>, <<"j:hatsu">>,
       <<"j:kaku", "j:shin", "j:teki">>, <<"k:yu", "k:ni", "k:-", "k:ku">>,
       <<"j:yui", "j:itsu">>, <<"j:hatsu", "h:me", "h:te">> >>

\* extractKeywords: split, keep the words longer than one character that are
\* no common word, keep the first ten.
extractKeywords(text) ==
    LET Keep(word) == Len(word) > MinKeywordLength /\ word \notin Elements(commonWords)
        words == SelectSeq(Split(text, DescriptionSeparators), Keep)
    IN  SubSeq(words, 1, Min(KeywordLimit, Len(words)))

\* The reason strings, by the check that pushes them and what they quote.
IndustryReason(industry, trend) ==
    [check |-> "industry", text |-> "industry-trend", first |-> industry, second |-> trend]

DescriptionReason(trend) ==
    [check |-> "description", text |-> "description-trend", first |-> trend, second |-> <<>>]

FeatureReason(feature) ==
    [check |-> "feature", text |-> "feature-trend", first |-> feature, second |-> <<>>]

AngleReason(text, industry) ==
    [check |-> "angle", text |-> text, first |-> industry, second |-> <<>>]

NoReason == [check |-> "none"]

\* case 'social-issue': a social keyword in the description or in a feature.
SocialIssueCase(input) ==
    IF (\E keyword \in Elements(socialKeywords) :
             \/ Includes(input.description, keyword)
             \/ (\E f \in Elements(input.features) : Includes(f, keyword)))
    THEN [score |-> AnglePoints, reason |-> AngleReason("social-issue fits", <<>>)]
    ELSE [score |-> 0, reason |-> NoReason]

\* Mutant: the trend-aligned case breaks out of the switch.
TrendAlignedCase_NoBonus == [score |-> 0, reason |-> NoReason]

\* case 'trend-aligned': always fits.
TrendAlignedCase ==
    [score |-> AnglePoints, reason |-> AngleReason("trend-aligned fits", <<>>)]

\* Mutant: seasonal without a keyword breaks out of the switch.
SeasonalCase_NoBaseline(input) ==
    IF (\E keyword \in Elements(seasonalKeywords) : Includes(input.description, keyword))
    THEN [score |-> AnglePoints, reason |-> AngleReason("seasonal fits", <<>>)]
    ELSE [score |-> 0, reason |-> NoReason]

\* case 'seasonal': a seasonal keyword in the description, else the baseline.
SeasonalCase(input) ==
    IF (\E keyword \in Elements(seasonalKeywords) : Includes(input.description, keyword))
    THEN [score |-> AnglePoints, reason |-> AngleReason("seasonal fits", <<>>)]
    ELSE [score |-> SeasonalBaseline, reason |-> AngleReason("seasonal is moderate", <<>>)]

\* case 'unique-story': a novelty keyword in the description or in a feature.
UniqueStoryCase(input) ==
    IF (\E keyword \in Elements(uniqueKeywords) :
             \/ Includes(input.description, keyword)
             \/ (\E f \in Elements(input.features) : Includes(f, keyword)))
    THEN [score |-> AnglePoints, reason |-> AngleReason("unique-story fits", <<>>)]
    ELSE [score |-> 0, reason |-> NoReason]

\* case 'industry-innovative': an industry string is present.
IndustryInnovativeCase(input) ==
    IF input.industry # <<>>
    THEN [score |-> AnglePoints,
          reason |-> AngleReason("industry-innovative fits", input.industry)]
    ELSE [score |-> 0, reason |-> NoReason]

\* checkAngleCompatibility: { score, reason? }.
checkAngleCompatibility(input, angle) ==
    CASE angle = "social-issue" -> SocialIssueCase(input)
      [] angle = "trend-aligned" -> TrendAlignedCase
      [] angle = "seasonal" -> SeasonalCase(input)
      [] angle = "unique-story" -> UniqueStoryCase(input)
      [] angle = "industry-innovative" -> IndustryInnovativeCase(input)

\* 1. industry against the trends.
IndustryStep(acc, input, trends) ==
    IF input.industry # <<>> /\ Len(trends) > 0
    THEN LET industryKeywords == Split(ToLowerCase(input.industry), IndustrySeparators)
             Matches(trend) ==
                 (\E keyword \in Elements(industryKeywords) : Includes(ToLowerCase(trend), keyword))
             trendMatches == SelectSeq(trends, Matches)
         IN  IF Len(trendMatches) > 0
             THEN [score |-> acc.score + IndustryPoints,
                   reasons |-> Append(acc.reasons, IndustryReason(input.industry, trendMatches[1]))]
             ELSE acc
    ELSE acc

\* 2. description against the trends.
DescriptionStep(acc, input, trends) ==
    IF input.description # <<>> /\ Len(trends) > 0
    THEN LET descriptionKeywords == extractKeywords(input.description)
             Matches(trend) ==
                 (\E keyword \in Elements(descriptionKeywords) : Includes(ToLowerCase(trend), ToLowerCase(keyword)))
             trendMatches == SelectSeq(trends, Matches)
         IN  IF Len(trendMatches) > 0
             THEN [score |-> acc.score + DescriptionPoints,
                   reasons |-> Append(acc.reasons, DescriptionReason(trendMatches[1]))]
             ELSE acc
    ELSE acc

\* Mutant: the first two characters of a feature are looked up.
FeatureStep_ShortPrefix(acc, input, trends) ==
    IF Len(input.features) > 0 /\ Len(trends) > 0
    THEN LET Matches(feature) ==
                 (\E trend \in Elements(trends) :
                     Includes(ToLowerCase(trend),
                              Prefix(ToLowerCase(feature), FeaturePrefixLength - 1)))
             featureMatches == SelectSeq(input.features, Matches)
         IN  IF Len(featureMatches) > 0
             THEN [score |-> acc.score + FeaturePoints,
                   reasons |-> Append(acc.reasons, FeatureReason(featureMatches[1]))]
             ELSE acc
    ELSE acc

\* 3. features against the trends.
FeatureStep(acc, input, trends) ==
    IF Len(input.features) > 0 /\ Len(trends) > 0
    THEN LET Matches(feature) ==
                 (\E trend \in Elements(trends) :
                     Includes(ToLowerCase(trend),
                              Prefix(ToLowerCase(feature), FeaturePrefixLength)))
             featureMatches == SelectSeq(input.features, Matches)
         IN  IF Len(featureMatches) > 0
             THEN [score |-> acc.score + FeaturePoints,
                   reasons |-> Append(acc.reasons, FeatureReason(featureMatches[1]))]
             ELSE acc
    ELSE acc

\* Mutant: the angle's reason is put in front (unshift for push).
AngleStep_Unshift(acc, input, angle) ==
    LET angleCompatibility == checkAngleCompatibility(input, angle)
    IN  [score |-> acc.score + angleCompatibility.score,
         reasons |-> IF angleCompatibility.reason # NoReason
                     THEN <<angleCompatibility.reason>> \o acc.reasons
                     ELSE acc.reasons]

\* 4. the angle.
AngleStep(acc, input, angle) ==
    LET angleCompatibility == checkAngleCompatibility(input, angle)
    IN  [score |-> acc.score + angleCompatibility.score,
         reasons |-> IF angleCompatibility.reason # NoReason
                     THEN Append(acc.reasons, angleCompatibility.reason)
                     ELSE acc.reasons]

\* Mutant: score > 30 for score >= 30.
Assess_StrictThreshold(acc) ==
    [score |-> Min(acc.score, MaxScore),
     isCompatible |-> acc.score > CompatibleThreshold,
     reasons |-> acc.reasons]

\* const isCompatible = score >= 30; return { score: Math.min(score, 100), ... }.
Assess(acc) ==
    [score |-> Min(acc.score, MaxScore),
     isCompatible |-> acc.score >= CompatibleThreshold,
     reasons |-> acc.reasons]

checkCompatibility(input, trends, angle) ==
    LET a0 == [score |-> 0, reasons |-> <<>>]
        a1 == IndustryStep(a0, input, trends)
        a2 == DescriptionStep(a1, input, trends)
        a3 == FeatureStep(a2, input, trends)
        a4 == AngleStep(a3, input, angle)
    IN  Assess(a4)

-----------------------------------------------------------------------------
(* Calls of checkCompatibility *)

Angles ==
    {"social-issue", "trend-aligned", "seasonal", "unique-story", "industry-innovative"}

\* The sequences of at most n distinct elements of S.
Lists(S, n) ==
    {q \in UNION {[1..k -> S] : k \in 0..n} :
        \A i, j \in 1..Len(q) : i # j => q[i] # q[j]}

\* "IT";  "AI・医療";  "医療、 福祉" (a blank after the comma).
SampleIndustries ==
    { <<>>,
      <<"I", "T">>,
      <<"A", "I", "nakaguro", "j:i", "j:ryou">>,
      <<"j:i", "j:ryou", "touten", "sp", "j:fuku", "j:shi2">> }

\* "AIが雨を予測する傘";  "AI 搭載の新しい傘";  "社会 課題を解決";
\* "春、IT の こと";  ten words "傘傘" and then "AI".
SampleDescriptions ==
    { <<>>,
      <<"A", "I", "h:ga", "j:ame", "h:wo", "j:yo", "j:soku", "h:su", "h:ru", "j:kasa">>,
      <<"A", "I", "sp", "j:tou", "j:sai", "h:no", "j:shin", "h:shi", "h:i", "j:kasa">>,
      <<"j:sha", "j:kai", "sp", "j:ka", "j:dai", "h:wo", "j:kai2", "j:ketsu">>,
      <<"j:haru", "touten", "I", "T", "sp", "h:no", "sp", "h:ko", "h:to">>,
      <<"j:kasa", "j:kasa", "sp", "j:kasa", "j:kasa", "sp", "j:kasa", "j:kasa", "sp",
        "j:kasa", "j:kasa", "sp", "j:kasa", "j:kasa", "sp", "j:kasa", "j:kasa", "sp",
        "j:kasa", "j:kasa", "sp", "j:kasa", "j:kasa", "sp", "j:kasa", "j:kasa", "sp",
        "j:kasa", "j:kasa", "sp", "A", "I">> }

\* "AI予測";  "軽量";  "AI技術で支援".
SampleFeatures ==
    { <<"A", "I", "j:yo", "j:soku">>,
      <<"j:kei", "j:ryou2">>,
      <<"A", "I", "j:gi", "j:jutsu", "h:de", "j:shi", "j:en">> }

\* "AI技術の進化";  "サステナビリティ";  "IT業界".
SampleTrends ==
    { <<"A", "I", "j:gi", "j:jutsu", "h:no", "j:shin2", "j:ka2">>,
      <<"k:sa", "k:su", "k:te", "k:na", "k:bi", "k:ri", "k:te", "k:i">>,
      <<"I", "T", "j:gyou", "j:kai3">> }

Inputs ==
    [industry : SampleIndustries, description : SampleDescriptions,
     features : Lists(SampleFeatures, MaxFeatures)]

InitScore ==
    /\ env = [openai |-> "none", claude |-> "none", gemini |-> "none"]
    /\ aiType = "auto"
    /\ pc = "idle"
    /\ model = 0
    /\ lastError = None
    /\ error = None
    /\ claudeError = None
    /\ requests = <<>>
    /\ adapterOut = [p \in Providers |-> None]
    /\ result = None
    /\ sc = "input"
    /\ argInput \in Inputs
    /\ argTrends \in Lists(SampleTrends, MaxTrends)
    /\ argAngle \in Angles
    /\ assessment = None
    /\ HandlersIdle
    /\ ClientIdle

\* One call of checkCompatibility.
CheckCompatibilityCall ==
    /\ sc = "input"
    /\ assessment' = checkCompatibility(argInput, argTrends, argAngle)
    /\ sc' = "scored"
    /\ UNCHANGED <<argInput, argTrends, argAngle>>
    /\ UNCHANGED <<clientVars, routerVars, handlerVars>>

NextScore == CheckCompatibilityCall

SpecScore == InitScore /\ [][NextScore]_vars

-----------------------------------------------------------------------------
(* Proposal orchestrator: POST of the proposals route, generateProposals *)

\* const angles: the five angles in their fixed order.
angles ==
    <<"social-issue", "trend-aligned", "seasonal", "unique-story", "industry-innovative">>

SkipThreshold == 10
FilterThreshold == 10

\* generateProposals: OPENAI_API_KEY || ANTHROPIC_API_KEY || GEMINI_API_KEY.
hasAIApi(e) == Truthy(e.openai) \/ Truthy(e.claude) \/ Truthy(e.gemini)

\* generateProposalForAngle: OPENAI_API_KEY || ANTHROPIC_API_KEY.
hasAIApiForAngle(e) == Truthy(e.openai) \/ Truthy(e.claude)

\* Mutant: a low score is skipped with or without a key.
SkipsAngle_WithoutKeys(compatibility, e, angle) ==
    compatibility.score < SkipThreshold /\ angle # "trend-aligned"

\* if (compatibility.score < 10 && hasAIApi && angle !== 'trend-aligned') continue
SkipsAngle(compatibility, e, angle) ==
    compatibility.score < SkipThreshold /\ hasAIApi(e) /\ angle # "trend-aligned"

\* Whether a call generateWithAI(prompt, t) can return a text at all: an
\* explicit provider needs its key (Gemini's trimmed), auto needs the key of
\* one provider of the chain.
CanReturn(e, t) ==
    IF t = "auto"
    THEN Truthy(e.openai) \/ Truthy(e.claude) \/ e.gemini = "set"
    ELSE IF t = "gemini" THEN e.gemini = "set" ELSE Truthy(e[t])

\* How the awaited generateWithAI(prompt, selectedAI) can settle: every call
\* can throw; it can resolve when a provider it may call has a key.
generateWithAIOutcomes(e, t) ==
    {"failed"} \cup (IF CanReturn(e, t) THEN {"returned"} ELSE {})

\* What JSON.parse(aiResponse.content) comes to: a value whose properties
\* can be read (an object, with or without the expected fields, an array, a
\* number, a string), null, or a SyntaxError (prose, a fenced block).
ContentShapes == {"value", "null", "invalid"}

\* Mutant: a null value is taken as an answer of the provider.
ParseFails_OnlySyntax(shape) == shape = "invalid"

\* The inner try of generateProposalForAngle throws: JSON.parse throws, or
\* createProposalFromAIResponse reads aiContent.title of null.
ParseFails(shape) == shape \in {"null", "invalid"}

\* generateProposalFromTemplate: the fields of the proposal that depend on
\* the assessment; source tells which generator built the proposal.
generateProposalFromTemplate(angle, compatibility) ==
    [angle |-> angle, source |-> "template",
     compatibilityScore |-> compatibility.score,
     isCompatible |-> compatibility.isCompatible]

\* Mutant: a proposal built from provider output is always marked compatible.
createProposalFromAIResponse_Flagged(angle, compatibility) ==
    [angle |-> angle, source |-> "ai",
     compatibilityScore |-> compatibility.score,
     isCompatible |-> TRUE]

\* createProposalFromAIResponse: missing fields get their defaults.
createProposalFromAIResponse(angle, compatibility) ==
    [angle |-> angle, source |-> "ai",
     compatibilityScore |-> compatibility.score,
     isCompatible |-> compatibility.isCompatible]

\* Mutant: score > 10 for score >= 10.
PassesFilter_Strict(p) == p.compatibilityScore > FilterThreshold

\* proposals.filter(p => p.compatibilityScore >= 10); the score is never
\* undefined.
PassesFilter(p) == p.compatibilityScore >= FilterThreshold

\* proposals.reduce((best, current) => currentScore > bestScore ? current : best)
RECURSIVE ReduceBest(_, _, _)
ReduceBest(list, i, best) ==
    IF i > Len(list) THEN best
    ELSE ReduceBest(list, i + 1,
                    IF list[i].compatibilityScore > best.compatibilityScore
                    THEN list[i] ELSE best)

bestProposal(list) == ReduceBest(list, 2, list[1])

\* Mutant: every generated proposal is returned.
filteredProposals_NoFilter(list) == list

\* POST: the filter, and the best proposal when the filter left nothing.
filteredProposals(list) ==
    LET filtered == SelectSeq(list, PassesFilter)
    IN  IF Len(filtered) = 0 /\ Len(list) > 0
        THEN <<bestProposal(list)>>
        ELSE filtered

\* "スマート傘": industry "IT", description "AIが雨を予測する傘",
\* features "AI予測" and "軽量".
SmartUmbrella ==
    [industry |-> <<"I", "T">>,
     description |-> <<"A", "I", "h:ga", "j:ame", "h:wo", "j:yo", "j:soku",
                       "h:su", "h:ru", "j:kasa">>,
     features |-> << <<"A", "I", "j:yo", "j:soku">>, <<"j:kei", "j:ryou2">> >>]

\* No industry, description "社会 課題を解決", no feature.
SocialInput ==
    [industry |-> <<>>,
     description |-> <<"j:sha", "j:kai", "sp", "j:ka", "j:dai", "h:wo", "j:kai2", "j:ketsu">>,
     features |-> <<>>]

AITrends ==
    << <<"A", "I", "j:gi", "j:jutsu", "h:no", "j:shin2", "j:ka2">>,
       <<"k:sa", "k:su", "k:te", "k:na", "k:bi", "k:ri", "k:te", "k:i">> >>

ITTrends == << <<"I", "T", "j:gyou", "j:kai3">> >>

\* The requests: the input (productServiceName and description present) and
\* the trends analyzeTrends found for it.
SampleRequests ==
    { [input |-> SmartUmbrella, trends |-> AITrends],
      [input |-> SmartUmbrella, trends |-> ITTrends],
      [input |-> SocialInput, trends |-> AITrends] }

\* What the body's input holds besides the strings of argInput: whether
\* productServiceName is there, what features is (an array of strings, an
\* object that is no array, or undefined) and whether releaseDate is there.
\* An input whose features is no array has argInput.features = <<>>.
TypedInput == [productServiceName |-> TRUE, features |-> "array", releaseDate |-> TRUE]

\* Mutant: checkCompatibility never throws.
ScoringThrows_Never(shape, input, angle) == FALSE

\* checkCompatibility throws a TypeError: input.features.length of
\* undefined; for features that is no array, input.features.some in the
\* cases social-issue and unique-story, reached when the description lacks
\* the first keyword of the list.
ScoringThrows(shape, input, angle) ==
    \/ shape.features = "missing"
    \/ /\ shape.features = "object"
       /\ \/ angle = "social-issue" /\ ~Includes(input.description, socialKeywords[1])
          \/ angle = "unique-story" /\ ~Includes(input.description, uniqueKeywords[1])

\* createProposalPrompt throws a TypeError: input.features.join of no
\* array, input.releaseDate.toISOString() of undefined.
PromptThrows(shape) == shape.features # "array" \/ ~shape.releaseDate

\* generateContentForAngle throws a TypeError: input.features.join.
TemplateThrows(shape) == shape.features # "array"

InitProposals ==
    /\ env \in Envs
    /\ aiType \in AiTypes
    /\ pc = "idle"
    /\ model = 0
    /\ lastError = None
    /\ error = None
    /\ claudeError = None
    /\ requests = <<>>
    /\ adapterOut = [p \in Providers |-> None]
    /\ result = None
    /\ sc = "idle"
    /\ \E r \in SampleRequests : argInput = r.input /\ argTrends = r.trends
    /\ argAngle = angles[1]
    /\ assessment = None
    /\ op = "angle"
    /\ angleIx = 1
    /\ proposals = <<>>
    /\ scores = [a \in Angles |-> -1]
    /\ routerCalls = [a \in Angles |-> "none"]
    /\ content = [a \in Angles |-> "none"]
    /\ response = None
    /\ inputShape = TypedInput
    /\ abandoned = FALSE
    /\ ended = [a \in Angles |-> "none"]
    /\ AssistIdle
    /\ ClientIdle

\* Mutant: the loop stays at its angle.
Continue_SameAngle ==
    /\ angleIx' = angleIx
    /\ argAngle' = argAngle
    /\ op' = "angle"

\* The next iteration of for (const angle of angles).
Continue ==
    /\ angleIx' = angleIx + 1
    /\ argAngle' = IF angleIx < Len(angles) THEN angles[angleIx + 1] ELSE argAngle
    /\ op' = "angle"

\* One iteration whose angle is skipped: checkCompatibility, continue.
SkipAngle ==
    /\ op = "angle" /\ angleIx <= Len(angles)
    /\ LET compatibility == checkCompatibility(argInput, argTrends, argAngle)
       IN  /\ ~ScoringThrows(inputShape, argInput, argAngle)
           /\ SkipsAngle(compatibility, env, argAngle)
           /\ assessment' = compatibility
           /\ scores' = [scores EXCEPT ![argAngle] = compatibility.score]
    /\ ended' = [ended EXCEPT ![argAngle] = "skipped"]
    /\ Continue
    /\ UNCHANGED <<proposals, routerCalls, content, response, inputShape, abandoned>>
    /\ UNCHANGED <<clientVars, routerVars, sc, argInput, argTrends, assistVars>>

\* One iteration without a key of OpenAI or Claude: checkCompatibility,
\* generateProposalForAngle returns the template proposal, push.
TemplateWithoutProvider ==
    /\ op = "angle" /\ angleIx <= Len(angles)
    /\ LET compatibility == checkCompatibility(argInput, argTrends, argAngle)
       IN  /\ ~ScoringThrows(inputShape, argInput, argAngle)
           /\ ~SkipsAngle(compatibility, env, argAngle)
           /\ ~hasAIApiForAngle(env)
           /\ ~TemplateThrows(inputShape)
           /\ assessment' = compatibility
           /\ scores' = [scores EXCEPT ![argAngle] = compatibility.score]
           /\ proposals' = Append(proposals, generateProposalFromTemplate(argAngle, compatibility))
    /\ ended' = [ended EXCEPT ![argAngle] = "pushed"]
    /\ Continue
    /\ UNCHANGED <<routerCalls, content, response, inputShape, abandoned>>
    /\ UNCHANGED <<clientVars, routerVars, sc, argInput, argTrends, assistVars>>

\* One iteration up to its await: checkCompatibility, createProposalPrompt,
\* generateWithAI(prompt, selectedAI) is called.
InvokeRouter ==
    /\ op = "angle" /\ angleIx <= Len(angles)
    /\ LET compatibility == checkCompatibility(argInput, argTrends, argAngle)
       IN  /\ ~ScoringThrows(inputShape, argInput, argAngle)
           /\ ~SkipsAngle(compatibility, env, argAngle)
           /\ hasAIApiForAngle(env)
           /\ ~PromptThrows(inputShape)
           /\ assessment' = compatibility
           /\ scores' = [scores EXCEPT ![argAngle] = compatibility.score]
    /\ routerCalls' = [routerCalls EXCEPT ![argAngle] = "pending"]
    /\ op' = "awaiting"
    /\ UNCHANGED <<angleIx, argAngle, proposals, content, response,
                   inputShape, abandoned, ended>>
    /\ UNCHANGED <<clientVars, routerVars, sc, argInput, argTrends, assistVars>>

\* The catch blocks of generateProposalForAngle: the template proposal is
\* pushed, or generateProposalFromTemplate throws and the catch of the loop
\* goes on without a proposal for the angle.
TemplateOrThrow ==
    IF TemplateThrows(inputShape)
    THEN /\ UNCHANGED proposals
         /\ ended' = [ended EXCEPT ![argAngle] = "threw"]
    ELSE /\ proposals' = Append(proposals, generateProposalFromTemplate(argAngle, assessment))
         /\ ended' = [ended EXCEPT ![argAngle] = "pushed"]

\* The await of generateWithAI settles: the text is parsed and the proposal
\* built from it, or the catch builds the template proposal; push.
ProviderSettled ==
    /\ op = "awaiting"
    /\ \E outcome \in generateWithAIOutcomes(env, aiType) :
         /\ routerCalls' = [routerCalls EXCEPT ![argAngle] = outcome]
         /\ IF outcome = "returned"
            THEN \E shape \in ContentShapes :
                   /\ content' = [content EXCEPT ![argAngle] = shape]
                   /\ IF ParseFails(shape)
                      THEN TemplateOrThrow
                      ELSE /\ proposals' = Append(proposals,
                                 createProposalFromAIResponse(argAngle, assessment))
                           /\ ended' = [ended EXCEPT ![argAngle] = "pushed"]
            ELSE /\ UNCHANGED content
                 /\ TemplateOrThrow
    /\ Continue
    /\ UNCHANGED <<assessment, scores, response, inputShape, abandoned>>
    /\ UNCHANGED <<clientVars, routerVars, sc, argInput, argTrends, assistVars>>

\* After the loop: POST filters the proposals and answers.
Respond ==
    /\ op = "angle" /\ angleIx > Len(angles)
    /\ response' = [status |-> 200, success |-> TRUE,
                    proposals |-> filteredProposals(proposals),
                    totalGenerated |-> Len(proposals),
                    compatibleCount |-> Len(filteredProposals(proposals))]
    /\ op' = "responded"
    /\ UNCHANGED <<angleIx, proposals, scores, routerCalls, content,
                   inputShape, abandoned, ended>>
    /\ UNCHANGED <<clientVars, routerVars, scoreVars, assistVars>>

NextProposals ==
    SkipAngle \/ TemplateWithoutProvider \/ InvokeRouter \/ ProviderSettled \/ Respond

SpecProposals == InitProposals /\ [][NextProposals]_vars

-----------------------------------------------------------------------------
(* Proposals route: POST from the arrival of the request *)

\* Industry "IT", no description, no feature.
NoDescriptionInput == [industry |-> <<"I", "T">>, description |-> <<>>, features |-> <<>>]

\* The bodies: well-typed inputs, an input without releaseDate, inputs
\* whose features is an object or is missing, and inputs that lack
\* productServiceName or description.
RunRequests ==
    { [input |-> SmartUmbrella, shape |-> TypedInput],
      [input |-> SocialInput, shape |-> TypedInput],
      [input |-> SmartUmbrella, shape |-> [TypedInput EXCEPT !.releaseDate = FALSE]],
      [input |-> SocialInput, shape |-> [TypedInput EXCEPT !.features = "object"]],
      [input |-> SocialInput, shape |-> [TypedInput EXCEPT !.features = "missing"]],
      [input |-> SmartUmbrella, shape |-> [TypedInput EXCEPT !.productServiceName = FALSE]],
      [input |-> NoDescriptionInput, shape |-> TypedInput] }

\* The trends analyzeTrends may find for an input.
TrendsFor(input) ==
    IF input = SocialInput THEN {AITrends} ELSE {AITrends, ITTrends}

InitRun ==
    /\ env \in Envs
    /\ aiType \in AiTypes
    /\ pc = "idle"
    /\ model = 0
    /\ lastError = None
    /\ error = None
    /\ claudeError = None
    /\ requests = <<>>
    /\ adapterOut = [p \in Providers |-> None]
    /\ result = None
    /\ sc = "idle"
    /\ \E r \in RunRequests : argInput = r.input /\ inputShape = r.shape
    /\ argTrends = <<>>
    /\ argAngle = angles[1]
    /\ assessment = None
    /\ op = "received"
    /\ angleIx = 0
    /\ proposals = <<>>
    /\ scores = [a \in Angles |-> -1]
    /\ routerCalls = [a \in Angles |-> "none"]
    /\ content = [a \in Angles |-> "none"]
    /\ response = None
    /\ abandoned = FALSE
    /\ ended = [a \in Angles |-> "none"]
    /\ AssistIdle
    /\ ClientIdle

\* Mutant: only the name is required.
InputInvalid_NameOnly == ~inputShape.productServiceName

\* if (!input.productServiceName || !input.description)
InputInvalid == ~inputShape.productServiceName \/ argInput.description = <<>>

InputRequiredMessage == [text |-> <<"name and description are required">>, marks |-> {}]

\* POST for an input that fails validation: 400.
RejectRequest ==
    /\ op = "received"
    /\ InputInvalid
    /\ response' = [status |-> 400, success |-> FALSE, error |-> InputRequiredMessage]
    /\ op' = "responded"
    /\ UNCHANGED <<angleIx, proposals, scores, routerCalls, content,
                   inputShape, abandoned, ended>>
    /\ UNCHANGED <<clientVars, routerVars, scoreVars, assistVars>>

\* POST for a valid input, up to the loop of generateProposals:
\* analyzeTrends finds the trends.
AnalyzeTrends ==
    /\ op = "received"
    /\ ~InputInvalid
    /\ argTrends' \in TrendsFor(argInput)
    /\ op' = "angle"
    /\ angleIx' = 1
    /\ UNCHANGED <<proposals, scores, routerCalls, content, response,
                   inputShape, abandoned, ended>>
    /\ UNCHANGED <<clientVars, routerVars, sc, argInput, argAngle, assessment, assistVars>>

\* One iteration whose checkCompatibility throws: the catch of the loop
\* logs the error and the loop goes on.
ScoringFails ==
    /\ op = "angle" /\ angleIx <= Len(angles)
    /\ ScoringThrows(inputShape, argInput, argAngle)
    /\ ended' = [ended EXCEPT ![argAngle] = "threw"]
    /\ Continue
    /\ UNCHANGED <<proposals, scores, routerCalls, content, response, inputShape, abandoned>>
    /\ UNCHANGED <<clientVars, routerVars, sc, argInput, argTrends, assessment, assistVars>>

\* One iteration whose generateProposalForAngle does not reach the router
\* and ends in generateProposalFromTemplate: without a key of OpenAI or
\* Claude, or createProposalPrompt throws and catch (aiError) takes the
\* template.  The template proposal is pushed, or the template throws too.
TemplateWithoutCall ==
    /\ op = "angle" /\ angleIx <= Len(angles)
    /\ LET compatibility == checkCompatibility(argInput, argTrends, argAngle)
       IN  /\ ~ScoringThrows(inputShape, argInput, argAngle)
           /\ ~SkipsAngle(compatibility, env, argAngle)
           /\ \/ hasAIApiForAngle(env) /\ PromptThrows(inputShape)
              \/ ~hasAIApiForAngle(env) /\ TemplateThrows(inputShape)
           /\ assessment' = compatibility
           /\ scores' = [scores EXCEPT ![argAngle] = compatibility.score]
           /\ IF TemplateThrows(inputShape)
              THEN /\ UNCHANGED proposals
                   /\ ended' = [ended EXCEPT ![argAngle] = "threw"]
              ELSE /\ proposals' = Append(proposals,
                         generateProposalFromTemplate(argAngle, compatibility))
                   /\ ended' = [ended EXCEPT ![argAngle] = "pushed"]
    /\ Continue
    /\ UNCHANGED <<routerCalls, content, response, inputShape, abandoned>>
    /\ UNCHANGED <<clientVars, routerVars, sc, argInput, argTrends, assistVars>>

\* The caller gives up the request (the connection is closed).  POST does
\* not read request.signal and hands no signal to fetch: nothing else
\* changes.
Abandon ==
    /\ op \in {"received", "angle", "awaiting"}
    /\ ~abandoned
    /\ abandoned' = TRUE
    /\ UNCHANGED <<op, angleIx, proposals, scores, routerCalls, content, response,
                   inputShape, ended>>
    /\ UNCHANGED <<clientVars, routerVars, scoreVars, assistVars>>

\* The steps of POST.
NextHandled ==
    \/ RejectRequest \/ AnalyzeTrends
    \/ ScoringFails \/ TemplateWithoutCall
    \/ SkipAngle \/ TemplateWithoutProvider \/ InvokeRouter \/ ProviderSettled \/ Respond

\* The steps of POST and of its caller.
NextRun == NextHandled \/ Abandon

SpecRun == InitRun /\ [][NextRun]_vars

\* The requests that leave the provider to the router (no selectedAI in
\* the input: 'auto').
InitRunAuto == InitRun /\ aiType = "auto"

\* The steps of POST under the scheduling of the event loop: synchronous
\* code runs on, and an awaited generateWithAI settles (each fetch resolves
\* or rejects).
SpecHandledFair == InitRunAuto /\ [][NextHandled]_vars /\ WF_vars(NextHandled)

-----------------------------------------------------------------------------
(* Provider texts *)

\* A provider text is a sequence of lexemes: single characters ("{", "q"
\* the double quote, "sp" a blank, "nl" a line feed, "lbr" the bracket that
\* opens a label, "fwcolon" the full-width colon, "bullet" a middle dot or
\* bullet, digits, ...) and runs of letters and other plain characters
\* ("json", "proposals", "w10a": ten characters of title text, ...).
\* "fence" is the run of three backquotes.
Width(c) ==
    CASE c = "fence" -> 3
      [] c \in {"json", "null"} -> 4
      [] c = "proposals" -> 9
      [] c = "title" -> 5
      [] c = "approach" -> 8
      [] c = "w3" -> 3
      [] c = "w5" -> 5
      [] c \in {"w10a", "w10b", "w10c"} -> 10
      [] c = "w198" -> 198
      [] c = "w200" -> 200
      [] OTHER -> 1

\* String.prototype.length.
RECURSIVE Length(_)
Length(s) == IF s = <<>> THEN 0 ELSE Width(Head(s)) + Length(Tail(s))

\* \s
IsSpace(c) == c \in {"sp", "nl"}

\* \d
IsDigit(c) == c \in {"1", "2", "3"}

\* The first index from i on that holds no white space (Len(s) + 1 if none).
SkipSpace(s, i) ==
    CHOOSE j \in i..(Len(s) + 1) :
        /\ \A k \in i..(j - 1) : IsSpace(s[k])
        /\ j = Len(s) + 1 \/ ~IsSpace(s[j])

\* String.prototype.trim.
Trim(s) ==
    IF \A k \in 1..Len(s) : IsSpace(s[k]) THEN <<>>
    ELSE LET first == SkipSpace(s, 1)
             last == CHOOSE j \in 1..Len(s) :
                         ~IsSpace(s[j]) /\ \A k \in (j + 1)..Len(s) : IsSpace(s[k])
         IN  SubSeq(s, first, last)

\* indexOf / lastIndexOf of a character, 0 for -1.
IndexOf1(s, c) ==
    IF \E i \in 1..Len(s) : s[i] = c
    THEN CHOOSE i \in 1..Len(s) : s[i] = c /\ \A k \in 1..(i - 1) : s[k] # c
    ELSE 0

LastIndexOf1(s, c) ==
    IF \E i \in 1..Len(s) : s[i] = c
    THEN CHOOSE i \in 1..Len(s) : s[i] = c /\ \A k \in (i + 1)..Len(s) : s[k] # c
    ELSE 0

\* The first index after i that holds c, 0 if none.
IndexAfter(s, c, i) ==
    IF \E j \in (i + 1)..Len(s) : s[j] = c
    THEN CHOOSE j \in (i + 1)..Len(s) : s[j] = c /\ \A k \in (i + 1)..(j - 1) : s[k] # c
    ELSE 0

\* String.prototype.split('\n').
Lines(s) == Split(s, {"nl"})

-----------------------------------------------------------------------------
(* JSON.parse *)

\* The values JSON.parse returns: strings, arrays, objects (the members in
\* the order of the text), null and numbers.
JStr(s) == [t |-> "str", v |-> s]
JArr(elements) == [t |-> "arr", v |-> elements]
JObj(members) == [t |-> "obj", v |-> members]
JNull == [t |-> "null"]
JNum(digits) == [t |-> "num", v |-> digits]

SyntaxError == [ok |-> FALSE]

Parsed(value, next) == [ok |-> TRUE, val |-> value, next |-> next]

\* A string literal at i: up to the next double quote, no line feed inside.
ParseString(s, i) ==
    LET j == IndexAfter(s, "q", i)
    IN  IF j = 0 \/ (\E k \in (i + 1)..(j - 1) : s[k] = "nl") THEN SyntaxError
        ELSE Parsed(JStr(SubSeq(s, i + 1, j - 1)), j + 1)

\* A number at i: the digits that follow each other.
ParseNumber(s, i) ==
    LET j == CHOOSE j \in (i + 1)..(Len(s) + 1) :
                 /\ \A k \in i..(j - 1) : IsDigit(s[k])
                 /\ j = Len(s) + 1 \/ ~IsDigit(s[j])
    IN  Parsed(JNum(SubSeq(s, i, j - 1)), j)

RECURSIVE ParseValue(_, _)
RECURSIVE ParseMembers(_, _, _)
RECURSIVE ParseElements(_, _, _)

\* The members of an object from i on, after "{" or ",".
ParseMembers(s, i, acc) ==
    LET k == SkipSpace(s, i)
    IN  IF k > Len(s) \/ s[k] # "q" THEN SyntaxError
        ELSE LET key == ParseString(s, k)
             IN  IF ~key.ok THEN SyntaxError
                 ELSE LET c == SkipSpace(s, key.next)
                      IN  IF c > Len(s) \/ s[c] # ":" THEN SyntaxError
                          ELSE LET value == ParseValue(s, c + 1)
                               IN  IF ~value.ok THEN SyntaxError
                                   ELSE LET e == SkipSpace(s, value.next)
                                            members == Append(acc, <<key.val.v, value.val>>)
                                        IN  IF e > Len(s) THEN SyntaxError
                                            ELSE IF s[e] = "," THEN ParseMembers(s, e + 1, members)
                                            ELSE IF s[e] = "}" THEN Parsed(JObj(members), e + 1)
                                            ELSE SyntaxError

\* The elements of an array from i on, after "[" or ",".
ParseElements(s, i, acc) ==
    LET value == ParseValue(s, i)
    IN  IF ~value.ok THEN SyntaxError
        ELSE LET e == SkipSpace(s, value.next)
                 elements == Append(acc, value.val)
             IN  IF e > Len(s) THEN SyntaxError
                 ELSE IF s[e] = "," THEN ParseElements(s, e + 1, elements)
                 ELSE IF s[e] = "]" THEN Parsed(JArr(elements), e + 1)
                 ELSE SyntaxError

\* A value from i on, white space skipped.
ParseValue(s, i) ==
    LET j == SkipSpace(s, i)
    IN  IF j > Len(s) THEN SyntaxError
        ELSE IF s[j] = "q" THEN ParseString(s, j)
        ELSE IF s[j] = "null" THEN Parsed(JNull, j + 1)
        ELSE IF IsDigit(s[j]) THEN ParseNumber(s, j)
        ELSE IF s[j] = "{"
        THEN LET k == SkipSpace(s, j + 1)
             IN  IF k <= Len(s) /\ s[k] = "}" THEN Parsed(JObj(<<>>), k + 1)
                 ELSE ParseMembers(s, j + 1, <<>>)
        ELSE IF s[j] = "["
        THEN LET k == SkipSpace(s, j + 1)
             IN  IF k <= Len(s) /\ s[k] = "]" THEN Parsed(JArr(<<>>), k + 1)
                 ELSE ParseElements(s, j + 1, <<>>)
        ELSE SyntaxError

\* JSON.parse(s): one value and nothing but white space around it.
JSONparse(s) ==
    LET value == ParseValue(s, 1)
    IN  IF value.ok /\ SkipSpace(s, value.next) > Len(s)
        THEN [ok |-> TRUE, val |-> value.val]
        ELSE SyntaxError

\* parsed.name: the value of the last member of that name; undefined for a
\* missing member and for a value that is no object.
Undefined == [t |-> "undefined"]

HasMember(value, name) ==
    value.t = "obj" /\ \E i \in 1..Len(value.v) : value.v[i][1] = <<name>>

Member(value, name) ==
    IF HasMember(value, name)
    THEN LET i == CHOOSE i \in 1..Len(value.v) :
                      /\ value.v[i][1] = <<name>>
                      /\ \A k \in (i + 1)..Len(value.v) : value.v[k][1] # <<name>>
         IN  value.v[i][2]
    ELSE Undefined

-----------------------------------------------------------------------------
(* Title extraction of the assist route *)

MinTitleLength == 5
MaxTitleLength == 200
TitleCap == 5

NoMatch == [found |-> FALSE]

\* jsonString.match(/```(?:json)?\s*([\s\S]*?)```/): the first fence that
\* has a fence after it, the group between them without a leading "json"
\* and white space.
jsonBlockMatch(s) ==
    LET open == IndexOf1(s, "fence")
        close == IF open = 0 THEN 0 ELSE IndexAfter(s, "fence", open)
    IN  IF close = 0 THEN NoMatch
        ELSE LET afterTag == IF s[open + 1] = "json" THEN open + 2 ELSE open + 1
                 start == SkipSpace(s, afterTag)
             IN  [found |-> TRUE, group |-> SubSeq(s, start, close - 1)]

\* The string handed to JSON.parse: the interior of the first fenced block
\* if there is one, and of that the part from the first "{" to the last "}"
\* if it does not start with "{".
jsonString(responseContent) ==
    LET trimmed == Trim(responseContent)
        block == jsonBlockMatch(trimmed)
        inner == IF block.found THEN Trim(block.group) ELSE trimmed
        firstBrace == IndexOf1(inner, "{")
        lastBrace == LastIndexOf1(inner, "}")
    IN  IF (inner = <<>> \/ inner[1] # "{")
           /\ firstBrace # 0 /\ lastBrace # 0 /\ lastBrace > firstBrace
        THEN SubSeq(inner, firstBrace, lastBrace)
        ELSE inner

\* { title, approach }
TitleProposal(title, approach) ==
    JObj(<< << <<"title">>, JStr(title) >>, << <<"approach">>, JStr(approach) >> >>)

\* '抽出されたタイトル' and 'AI生成'.
ExtractedApproach == <<"j:chuushutsu">>
GeneratedApproach == <<"A", "I", "j:seisei">>

NoTitle == [found |-> FALSE]

Title(text) == [found |-> TRUE, title |-> text]

\* trimmed.match(/^[\d\-・•]\s*(.+)$/): match[1], if the line matches.
BulletMatch(trimmed) ==
    IF Len(trimmed) >= 2 /\ (IsDigit(trimmed[1]) \/ trimmed[1] \in {"-", "bullet"})
    THEN Title(SubSeq(trimmed, SkipSpace(trimmed, 2), Len(trimmed)))
    ELSE NoTitle

\* Mutant: only the lines with a leading digit, dash or bullet are kept.
LineTitle_MarkedOnly(line) ==
    LET trimmed == Trim(line)
        match == BulletMatch(trimmed)
    IN  IF match.found /\ Length(match.title) > MinTitleLength
                       /\ Length(match.title) < MaxTitleLength
        THEN Title(Trim(match.title))
        ELSE NoTitle

\* The body of for (const line of lines): the title the line gives, if any.
LineTitle(line) ==
    LET trimmed == Trim(line)
        match == BulletMatch(trimmed)
    IN  IF match.found /\ Length(match.title) > MinTitleLength
                       /\ Length(match.title) < MaxTitleLength
        THEN Title(Trim(match.title))
        ELSE IF /\ Length(trimmed) > MinTitleLength
                /\ Length(trimmed) < MaxTitleLength
                /\ trimmed[1] # "lbr"
                /\ \A i \in 1..Len(trimmed) : trimmed[i] # "fwcolon"
        THEN Title(trimmed)
        ELSE NoTitle

\* responseContent.split('\n').filter(line => line.trim().length > 0)
NonBlankLines(s) == SelectSeq(Lines(s), LAMBDA line : Trim(line) # <<>>)

\* extractedTitles after the loop over the lines.
extractedTitles(s) ==
    LET lines == NonBlankLines(s)
        kept == SelectSeq(lines, LAMBDA line : LineTitle(line).found)
    IN  [i \in 1..Len(kept) |-> TitleProposal(LineTitle(kept[i]).title, ExtractedApproach)]

\* String.prototype.replace(/```[\s\S]*?```/g, '').
RECURSIVE RemoveFenced(_)
RemoveFenced(s) ==
    LET open == IndexOf1(s, "fence")
        close == IF open = 0 THEN 0 ELSE IndexAfter(s, "fence", open)
    IN  IF close = 0 THEN s
        ELSE SubSeq(s, 1, open - 1) \o RemoveFenced(SubSeq(s, close + 1, Len(s)))

\* responseContent.replace(...).trim().split('\n')[0].trim()
cleanTitle(s) == Trim(Lines(Trim(RemoveFenced(s)))[1])

\* What the title branch leaves in result, or throws.
ProposalsResult(list) == [kind |-> "proposals", proposals |-> list]

TextResult(text) == [kind |-> "text", text |-> text]

ExtractionError == [kind |-> "throw", error |-> "extraction"]

\* extractedTitles.slice(0, 5)
FirstTitles(list) == SubSeq(list, 1, Min(TitleCap, Len(list)))

\* catch (parseError): the titles of the lines, else the first line of the
\* text without its fenced blocks, else an Error.
LineScan(responseContent) ==
    LET titles == extractedTitles(responseContent)
        clean == cleanTitle(responseContent)
    IN  IF Len(titles) > 0 THEN ProposalsResult(FirstTitles(titles))
        ELSE IF Length(clean) > 0 /\ Length(clean) < MaxTitleLength
        THEN ProposalsResult(<<TitleProposal(clean, GeneratedApproach)>>)
        ELSE ExtractionError

\* parsed.proposals && Array.isArray(parsed.proposals)
AcceptsProposals(value) == Member(value, "proposals").t = "arr"

\* The try of the title branch: JSON.parse and the reading of parsed; a
\* SyntaxError, and the TypeError of reading a property of null, go to the
\* catch.
ExtractTitles(responseContent) ==
    LET parsed == JSONparse(jsonString(responseContent))
    IN  IF ~parsed.ok \/ parsed.val = JNull THEN LineScan(responseContent)
        ELSE IF AcceptsProposals(parsed.val)
        THEN ProposalsResult(Member(parsed.val, "proposals").v)
        ELSE IF Member(parsed.val, "title").t = "str" /\ Member(parsed.val, "title").v # <<>>
        THEN ProposalsResult(<<TitleProposal(Member(parsed.val, "title").v, GeneratedApproach)>>)
        ELSE TextResult(responseContent)

-----------------------------------------------------------------------------
(* Error messages *)

\* A message is its text and the set of the probed substrings it holds
\* ('fetch', 'API', 'AI', 'Gemini', ...; "API-ki" is 'API' followed by the
\* katakana for key): message.includes(x) is the membership of x in marks.
Message(text, marks) == [text |-> text, marks |-> marks]

MessageIncludes(message, probe) == probe \in message.marks

\* The status a non-2xx answer puts into the message.
StatusOf(resp) ==
    CASE resp = "http401" -> "401"
      [] resp \in {"http404", "http404json", "http404html"} -> "404"
      [] resp \in {"http429", "http429json"} -> "429"
      [] resp = "http400json" -> "400-detail"

\* The message of the Error that generateWithAI throws.  What the provider
\* wrote in the body of a non-2xx answer is taken to hold none of the probed
\* substrings; the detail of a Gemini 400 answer replaces the status.
MessageOf(e) ==
    CASE e.resp = "missingCredential" /\ e.provider = "openai"
             -> Message(<<"OPENAI_API_KEY is not set">>, {"API", "API_KEY", "AI"})
      [] e.resp = "missingCredential" /\ e.provider # "openai"
             -> Message(<<e.provider, "API_KEY is not set">>, {"API", "API_KEY"})
      [] e.resp = "noProviderConfigured"
             -> Message(<<"no AI API key is set">>, {"AI", "API", "API-ki", "API_KEY"})
      [] e.resp = "network" -> Message(<<"fetch failed">>, {"fetch"})
      [] e.resp = "badjson" -> Message(<<"Unexpected token">>, {})
      [] e.resp = "empty" /\ e.provider = "openai"
             -> Message(<<"OpenAI API returned no content">>, {"OpenAI", "AI", "API"})
      [] e.resp = "empty" /\ e.provider = "claude"
             -> Message(<<"Claude API returned no content">>, {"Claude", "API"})
      [] e.resp = "empty" /\ e.provider = "gemini"
             -> Message(<<"Gemini API returned no content">>, {"Gemini", "API"})
      [] e.resp \in {"http401", "http404", "http429"} /\ e.provider = "openai"
             -> Message(<<"OpenAI API error", e.resp>>, {"OpenAI", "AI", "API", StatusOf(e.resp)})
      [] e.resp \in {"http401", "http404", "http429"} /\ e.provider = "claude"
             -> Message(<<"Claude API error", e.resp>>, {"Claude", "API", StatusOf(e.resp)})
      [] e.resp \in {"http404json", "http404html", "http429json", "http400json"}
             -> Message(<<"Gemini API error", e.resp>>, {"Gemini", "API", StatusOf(e.resp)})
      [] e.resp = "htmlKeyInvalid"
             -> Message(<<"Gemini API key is invalid">>, {"Gemini", "API", "API-ki"})
      [] e.resp = "htmlQuota"
             -> Message(<<"Gemini API quota reached">>, {"Gemini", "API"})
      [] e.resp = "noAvailableModel"
             -> Message(<<"Gemini API: no available model">>, {"Gemini", "API", "API-ki"})
      [] e.resp \in {"nonjson", "dataError", "allModelsFailed"}
             -> Message(<<"Gemini API", e.resp>>, {"Gemini", "API"})

\* `prefix${message}`
Prefixed(text, marks, message) ==
    Message(<<text>> \o message.text, marks \cup message.marks)

\* The messages toAppError puts in place of the Error's.
NetworkMessage == Message(<<"network error, check the connection">>, {})
ServerMessage == Message(<<"server error, try again later">>, {})
GeminiKeyMessage == Message(<<"the Gemini API key is invalid">>, {"Gemini", "API", "API-ki"})
GeminiModelMessage == Message(<<"the Gemini API model was not found">>, {"Gemini", "API"})
GeminiRateMessage == Message(<<"the Gemini API rate limit was reached">>, {"Gemini", "API"})
AIGenerationMessage == Message(<<"AI generation failed, check the API key">>, {"AI", "API", "API-ki"})
ExportMessage == Message(<<"the file could not be written">>, {})
FileMessage == Message(<<"the file could not be processed">>, {})

AppError(type, message) == [type |-> type, message |-> message]

\* toAppError for an Error with a non-empty message.
toAppError(m) ==
    IF MessageIncludes(m, "fetch") \/ MessageIncludes(m, "network")
    THEN AppError("NETWORK_ERROR", NetworkMessage)
    ELSE IF MessageIncludes(m, "API") \/ MessageIncludes(m, "500") \/ MessageIncludes(m, "400")
    THEN AppError("API_ERROR", ServerMessage)
    ELSE IF \/ MessageIncludes(m, "AI") \/ MessageIncludes(m, "OpenAI")
            \/ MessageIncludes(m, "Claude") \/ MessageIncludes(m, "Gemini")
    THEN IF MessageIncludes(m, "Gemini")
         THEN IF \/ MessageIncludes(m, "API_KEY") \/ MessageIncludes(m, "401")
                 \/ MessageIncludes(m, "403")
              THEN AppError("AI_GENERATION_ERROR", GeminiKeyMessage)
              ELSE IF MessageIncludes(m, "404") \/ MessageIncludes(m, "model")
              THEN AppError("AI_GENERATION_ERROR", GeminiModelMessage)
              ELSE IF \/ MessageIncludes(m, "429") \/ MessageIncludes(m, "quota")
                      \/ MessageIncludes(m, "rate limit")
              THEN AppError("AI_GENERATION_ERROR", GeminiRateMessage)
              ELSE AppError("AI_GENERATION_ERROR",
                            Prefixed("Gemini API error: ", {"Gemini", "API"}, m))
         ELSE AppError("AI_GENERATION_ERROR", AIGenerationMessage)
    ELSE IF \/ MessageIncludes(m, "PDF") \/ MessageIncludes(m, "Word")
            \/ MessageIncludes(m, "export")
    THEN AppError("EXPORT_ERROR", ExportMessage)
    ELSE IF \/ MessageIncludes(m, "file") \/ MessageIncludes(m, "image")
            \/ MessageIncludes(m, "upload")
    THEN AppError("FILE_ERROR", FileMessage)
    ELSE AppError("API_ERROR", m)

\* getUserFriendlyMessage: the network message for a network error, else
\* the message of the AppError, which is never empty here.
getUserFriendlyMessage(appError) ==
    IF appError.type = "NETWORK_ERROR" THEN NetworkMessage ELSE appError.message

-----------------------------------------------------------------------------
(* Assist route: POST *)

\* The errors generateWithGemini throws: without a usable key the
\* missing-credential error, else the failure of the last model, a 404 of
\* it as the no-available-model error.
GeminiErrors(e) ==
    IF e.gemini # "set" THEN {MissingCredential("gemini")}
    ELSE {ErrorOf("gemini", NumModels, r) :
             r \in {x \in GeminiResponses : x.kind # "content" /\ ~Mentions404(ErrorOf("gemini", NumModels, x))}}
         \cup {NoAvailableModel}

\* The errors one adapter throws.
AdapterErrors(provider, e) ==
    IF provider = "gemini" THEN GeminiErrors(e)
    ELSE {ErrorOf(provider, 0, r) : r \in {x \in HttpResponses : x.kind # "content"}}

\* auto: the last provider of the chain that has a key.
LastProvider(e) ==
    IF Truthy(e.gemini) THEN "gemini"
    ELSE IF Truthy(e.claude) THEN "claude"
    ELSE IF Truthy(e.openai) THEN "openai"
    ELSE "none"

\* The errors generateWithAI(prompt, t) can throw: for an explicit provider
\* its missing credential or its adapter's errors, for auto the error of
\* the last provider with a key, or that no provider is configured.
ThrownErrors(e, t) ==
    IF t # "auto"
    THEN IF Truthy(e[t]) THEN AdapterErrors(t, e) ELSE {MissingCredential(t)}
    ELSE IF LastProvider(e) = "none" THEN {NoProviderConfigured}
    ELSE AdapterErrors(LastProvider(e), e)

\* The outcomes of the awaited generateWithAI(prompt, aiType): a text, when
\* a provider it may call has a key, or one of the errors it can throw.
generateWithAIResults(e, t) ==
    ThrownErrors(e, t) \cup (IF CanReturn(e, t) THEN {[kind |-> "returned"]} ELSE {})

TaskTypes == {"title", "introduction", "section"}

\* openaiKey || anthropicKey || geminiKey, each trimmed.
hasAIApiTrimmed(e) == e.openai = "set" \/ e.claude = "set" \/ e.gemini = "set"

\* A company name for a template: the document's, or '当社'.
CompanyOrDefault(pressRelease) ==
    IF pressRelease.companyName # <<>> THEN pressRelease.companyName ELSE <<"j:tou", "j:sha">>

\* generateTemplateBased.
generateTemplateBased(type, pressRelease, sectionContent) ==
    CASE type = "title" ->
             IF pressRelease.companyName # <<>>
             THEN pressRelease.companyName \o <<"template-title">>
             ELSE IF pressRelease.introduction # <<>>
             THEN (IF Trim(pressRelease.introduction) # <<>>
                   THEN Trim(pressRelease.introduction) ELSE <<"press-release">>)
             ELSE <<"press-release">>
      [] type = "introduction" ->
             IF pressRelease.introduction # <<>> THEN pressRelease.introduction
             ELSE CompanyOrDefault(pressRelease) \o <<"template-introduction">>
      [] type = "section" ->
             IF sectionContent # <<>> THEN sectionContent ELSE <<"template-section">>
      [] OTHER -> <<>>

\* The error messages of the route.
NoPressReleaseMessage == Message(<<"press release is required">>, {})
NoTypeMessage == Message(<<"type is required">>, {})
InvalidTypeMessage == Message(<<"invalid type">>, {})
NoCredentialMessage ==
    Message(<<"title proposals need an AI API key: set OPENAI_API_KEY, ANTHROPIC_API_KEY or GEMINI_API_KEY">>,
            {"AI", "API", "API-ki", "API_KEY"})
ExtractionMessage ==
    Message(<<"title proposals failed, the AI may not have answered in JSON">>, {"AI"})
NoProposalsMessage == Message(<<"title proposals failed">>, {})
NoTitleMessage == Message(<<"title failed">>, {})
EmptyResultMessage == Message(<<"the result is empty">>, {})

Failure(status, message) == [status |-> status, success |-> FALSE, error |-> message]

\* Mutant: a failed title task falls back to the template like the others.
TitleFailureIsFatal_Never(type) == FALSE

\* catch (aiError): if (type === 'title') throw.
TitleFailureIsFatal(type) == type = "title"

\* catch (aiError) for the title task: the Error thrown on.
TitleError(m) ==
    IF \/ MessageIncludes(m, "Gemini") \/ MessageIncludes(m, "API-ki")
       \/ MessageIncludes(m, "API key")
    THEN Prefixed("Gemini API error: ", {"Gemini", "API"}, m)
    ELSE Prefixed("title proposals failed: ", {}, m)

\* The outer catch of POST: status 500 with the user-friendly message
\* (NODE_ENV is production: no details are appended).
InternalError(m) == Failure(500, getUserFriendlyMessage(toAppError(m)))

\* The checks of result at the end of POST and the answer.
Answer(type, res) ==
    IF type = "title" /\ res.kind = "proposals"
    THEN IF Len(res.proposals) = 0 THEN Failure(500, NoProposalsMessage)
         ELSE [status |-> 200, success |-> TRUE, proposals |-> res.proposals]
    ELSE IF Trim(res.text) = <<>>
         THEN Failure(500, IF type = "title" THEN NoTitleMessage ELSE EmptyResultMessage)
         ELSE [status |-> 200, success |-> TRUE, result |-> Trim(res.text)]

\* The title texts a provider may answer with: JSON documents ...
ProposalItem(title) ==
    <<"{", "q", "title", "q", ":", "q">> \o title
        \o <<"q", ",", "q", "approach", "q", ":", "q", "w5", "q", "}">>

JsonTwoProposals ==
    <<"{", "q", "proposals", "q", ":", "[">> \o ProposalItem(<<"w10a">>) \o <<",", "sp">>
        \o ProposalItem(<<"w10b">>) \o <<"]", "}">>

JsonFenceInTitle ==
    <<"{", "q", "proposals", "q", ":", "[">>
        \o ProposalItem(<<"w5", "sp", "fence", "w3", "fence", "sp", "w5">>) \o <<"]", "}">>

JsonNoProposals == <<"{", "q", "proposals", "q", ":", "[", "]", "}">>

JsonTitleOnly == <<"{", "q", "title", "q", ":", "q", "w10a", "q", "}">>

JsonOtherShape == <<"{", "q", "approach", "q", ":", "q", "w5", "q", "}">>

JsonDocuments ==
    {JsonTwoProposals, JsonFenceInTitle, JsonNoProposals, JsonTitleOnly, JsonOtherShape,
     <<"null">>}

\* ... as they are, in a fenced block within prose, in a fenced block
\* without the json tag, within prose without a fence, ...
InFence(text) ==
    <<"w10c", "fwcolon", "nl", "fence", "json", "nl">> \o text \o <<"nl", "fence", "nl", "w10c">>

InBareFence(text) == <<"fence">> \o text \o <<"fence">>

InProse(text) == <<"w10c", "sp">> \o text \o <<"sp", "w5">>

\* ... and lines of text.
NumberedLine(digit, title) == <<digit, ".", "sp">> \o title

LineKinds ==
    { NumberedLine("1", <<"w10a">>), NumberedLine("2", <<"w10b">>),
      NumberedLine("3", <<"w10c">>),
      <<"-", "sp", "w5">>, <<"-", "sp", "w198", "x">>, <<"-", "sp", "w200">>,
      <<"bullet", "w3">>,
      <<"w10a", "sp", "w5">>, <<"lbr", "w10b">>, <<"w5", "fwcolon", "w10c">>,
      <<"sp">> }

RECURSIVE JoinLines(_)
JoinLines(lines) ==
    IF Len(lines) = 0 THEN <<>>
    ELSE IF Len(lines) = 1 THEN lines[1]
    ELSE lines[1] \o <<"nl">> \o JoinLines(Tail(lines))

LineTexts == {JoinLines(lines) : lines \in UNION {[1..n -> LineKinds] : n \in 1..MaxLines}}

ThreeNumbered ==
    JoinLines(<<NumberedLine("1", <<"w10a">>), NumberedLine("2", <<"w10b">>),
                NumberedLine("3", <<"w10c">>)>>)

SixNumbered == JoinLines(<<ThreeNumbered, ThreeNumbered>>)

TitleTexts ==
    JsonDocuments
      \cup {InFence(t) : t \in JsonDocuments}
      \cup {InBareFence(t) : t \in JsonDocuments}
      \cup {InProse(t) : t \in JsonDocuments}
      \cup {<<"sp">> \o t \o <<"nl">> : t \in JsonDocuments}
      \cup LineTexts
      \cup {ThreeNumbered, SixNumbered, JoinLines(<<<<"w10a", "sp", "w5">>, ThreeNumbered>>)}

\* The texts a provider may answer the other tasks with: text, text within
\* white space, white space only.
PlainTexts == {<<"w10a">>, <<"nl", "w10b", "sp">>, <<"nl">>, <<"sp", "nl">>}

ProviderTexts(type) == IF type = "title" THEN TitleTexts ELSE PlainTexts

\* The documents: introduction and company name empty, present, or an
\* introduction of white space.
SamplePressReleases ==
    { [introduction |-> <<>>, companyName |-> <<>>],
      [introduction |-> <<"w10a">>, companyName |-> <<"w5">>],
      [introduction |-> <<"sp">>, companyName |-> <<>>] }

DefaultPressRelease == [introduction |-> <<"w10a">>, companyName |-> <<"w5">>]

\* The request bodies: the three tasks, and bodies without a document,
\* without a type, with an unknown type.
Bodies ==
    {[type |-> "title", pressRelease |-> DefaultPressRelease, sectionContent |-> <<>>]}
      \cup [type : {"introduction"}, pressRelease : SamplePressReleases, sectionContent : {<<>>}]
      \cup [type : {"section"}, pressRelease : {DefaultPressRelease},
            sectionContent : {<<>>, <<"w10b">>, <<"sp">>}]
      \cup {[type |-> "title", pressRelease |-> None, sectionContent |-> <<>>],
            [type |-> "none", pressRelease |-> DefaultPressRelease, sectionContent |-> <<>>],
            [type |-> "summary", pressRelease |-> DefaultPressRelease, sectionContent |-> <<>>]}

InitAssist ==
    /\ env \in Envs
    /\ aiType \in AiTypes
    /\ pc = "idle"
    /\ model = 0
    /\ lastError = None
    /\ error = None
    /\ claudeError = None
    /\ requests = <<>>
    /\ adapterOut = [p \in Providers |-> None]
    /\ result = None
    /\ sc = "idle"
    /\ argInput = [industry |-> <<>>, description |-> <<>>, features |-> <<>>]
    /\ argTrends = <<>>
    /\ argAngle = "trend-aligned"
    /\ assessment = None
    /\ OrchIdle
    /\ ap = "start"
    /\ body \in Bodies
    /\ aiError = None
    /\ aiResponse = None
    /\ assistResult = None
    /\ assistResponse = None
    /\ ClientIdle

\* POST for a body that fails validation: 400, nothing else happens.
RejectBody ==
    /\ ap = "start"
    /\ \/ body.pressRelease = None
       \/ body.type \notin TaskTypes
    /\ assistResponse' =
         IF body.pressRelease = None THEN Failure(400, NoPressReleaseMessage)
         ELSE IF body.type = "none" THEN Failure(400, NoTypeMessage)
         ELSE Failure(400, InvalidTypeMessage)
    /\ ap' = "responded"
    /\ UNCHANGED <<body, aiError, aiResponse, assistResult>>
    /\ UNCHANGED <<clientVars, routerVars, scoreVars, orchVars>>

\* POST without a usable key: the title task is refused with 400, the other
\* tasks are answered from the template.
AnswerWithoutProvider ==
    /\ ap = "start"
    /\ body.pressRelease # None /\ body.type \in TaskTypes
    /\ ~hasAIApiTrimmed(env)
    /\ IF body.type = "title"
       THEN /\ assistResponse' = Failure(400, NoCredentialMessage)
            /\ UNCHANGED assistResult
       ELSE LET res == TextResult(generateTemplateBased(body.type, body.pressRelease,
                                                        body.sectionContent))
            IN  /\ assistResult' = [res EXCEPT !.kind = "template"]
                /\ assistResponse' = Answer(body.type, res)
    /\ ap' = "responded"
    /\ UNCHANGED <<body, aiError, aiResponse>>
    /\ UNCHANGED <<clientVars, routerVars, scoreVars, orchVars>>

\* POST with a usable key, up to its await: generateWithAI(prompt, aiType).
InvokeAssistRouter ==
    /\ ap = "start"
    /\ body.pressRelease # None /\ body.type \in TaskTypes
    /\ hasAIApiTrimmed(env)
    /\ ap' = "awaiting"
    /\ UNCHANGED <<body, aiError, aiResponse, assistResult, assistResponse>>
    /\ UNCHANGED <<clientVars, routerVars, scoreVars, orchVars>>

\* catch (aiError): the title task fails, the others take the template.
OnAIError(m) ==
    IF TitleFailureIsFatal(body.type)
    THEN /\ assistResponse' = InternalError(TitleError(m))
         /\ assistResult' = [kind |-> "throw", error |-> m]
    ELSE LET res == TextResult(generateTemplateBased(body.type, body.pressRelease,
                                                     body.sectionContent))
         IN  /\ assistResult' = [res EXCEPT !.kind = "template"]
             /\ assistResponse' = Answer(body.type, res)

\* The await of generateWithAI settles: the text is trimmed and, for the
\* title task, the proposals are extracted from it; then the answer.
AssistSettled ==
    /\ ap = "awaiting"
    /\ \E outcome \in generateWithAIResults(env, aiType) :
         IF outcome.kind = "returned"
         THEN \E text \in ProviderTexts(body.type) :
                LET responseContent == Trim(text)
                    res == IF body.type = "title" THEN ExtractTitles(responseContent)
                           ELSE TextResult(responseContent)
                IN  /\ aiResponse' = [content |-> text]
                    /\ aiError' = IF res.kind = "throw" THEN ExtractionMessage ELSE None
                    /\ IF res.kind = "throw"
                       THEN OnAIError(ExtractionMessage)
                       ELSE /\ assistResult' = res
                            /\ assistResponse' = Answer(body.type, res)
         ELSE /\ aiError' = MessageOf(outcome)
              /\ UNCHANGED aiResponse
              /\ OnAIError(MessageOf(outcome))
    /\ ap' = "responded"
    /\ UNCHANGED body
    /\ UNCHANGED <<clientVars, routerVars, scoreVars, orchVars>>

NextAssist == RejectBody \/ AnswerWithoutProvider \/ InvokeAssistRouter \/ AssistSettled

SpecAssist == InitAssist /\ [][NextAssist]_vars

-----------------------------------------------------------------------------
(* Assist route of src/app/api/ai/assist/route.ts: POST *)

\* Mutant: the route calls the provider with or without a key.
routeHasAIApi_Always(e) == TRUE

\* process.env.OPENAI_API_KEY || process.env.ANTHROPIC_API_KEY ||
\* process.env.GEMINI_API_KEY, none of them trimmed.
routeHasAIApi(e) == Truthy(e.openai) \/ Truthy(e.claude) \/ Truthy(e.gemini)

\* generateTemplateBased of route.ts; the documents hold no title.
routeGenerateTemplateBased(type, pressRelease, sectionContent) ==
    CASE type = "title" ->
             IF pressRelease.companyName # <<>>
             THEN pressRelease.companyName \o <<"template-title">>
             ELSE <<"press-release">>
      [] type = "introduction" ->
             IF pressRelease.introduction # <<>> THEN pressRelease.introduction
             ELSE CompanyOrDefault(pressRelease) \o <<"template-introduction">>
      [] type = "section" ->
             IF sectionContent # <<>> THEN sectionContent ELSE <<"template-section">>
      [] OTHER -> <<>>

routeInvalidTypeMessage == Message(<<"invalid type">>, {})

\* NextResponse.json({ success: true, result })
routeAnswer(text) == [status |-> 200, success |-> TRUE, result |-> text]

InitRoute ==
    /\ env \in Envs
    /\ aiType \in AiTypes
    /\ pc = "idle"
    /\ model = 0
    /\ lastError = None
    /\ error = None
    /\ claudeError = None
    /\ requests = <<>>
    /\ adapterOut = [p \in Providers |-> None]
    /\ result = None
    /\ sc = "idle"
    /\ argInput = [industry |-> <<>>, description |-> <<>>, features |-> <<>>]
    /\ argTrends = <<>>
    /\ argAngle = "trend-aligned"
    /\ assessment = None
    /\ OrchIdle
    /\ ap = "route:start"
    /\ body \in Bodies
    /\ aiError = None
    /\ aiResponse = None
    /\ assistResult = None
    /\ assistResponse = None
    /\ ClientIdle

\* POST for a body without a document, or whose type is none of the three
\* (the default of the switch): 400.
routeRejectBody ==
    /\ ap = "route:start"
    /\ \/ body.pressRelease = None
       \/ body.type \notin TaskTypes
    /\ assistResponse' =
         IF body.pressRelease = None THEN Failure(400, NoPressReleaseMessage)
         ELSE Failure(400, routeInvalidTypeMessage)
    /\ ap' = "route:responded"
    /\ UNCHANGED <<body, aiError, aiResponse, assistResult>>
    /\ UNCHANGED <<clientVars, routerVars, scoreVars, orchVars>>

\* POST without a key: the template, for every task.
routeAnswerWithoutProvider ==
    /\ ap = "route:start"
    /\ body.pressRelease # None /\ body.type \in TaskTypes
    /\ ~routeHasAIApi(env)
    /\ LET text == routeGenerateTemplateBased(body.type, body.pressRelease, body.sectionContent)
       IN  /\ assistResult' = [kind |-> "template", text |-> text]
           /\ assistResponse' = routeAnswer(text)
    /\ ap' = "route:responded"
    /\ UNCHANGED <<body, aiError, aiResponse>>
    /\ UNCHANGED <<clientVars, routerVars, scoreVars, orchVars>>

\* POST with a key, up to its await: generateWithAI(prompt, aiType).
routeInvokeRouter ==
    /\ ap = "route:start"
    /\ body.pressRelease # None /\ body.type \in TaskTypes
    /\ routeHasAIApi(env)
    /\ ap' = "route:awaiting"
    /\ UNCHANGED <<body, aiError, aiResponse, assistResult, assistResponse>>
    /\ UNCHANGED <<clientVars, routerVars, scoreVars, orchVars>>

\* The await settles: the trimmed text is the result, or catch (aiError)
\* takes the template; the answer is a success either way.
routeSettled ==
    /\ ap = "route:awaiting"
    /\ \E outcome \in generateWithAIResults(env, aiType) :
         IF outcome.kind = "returned"
         THEN \E text \in PlainTexts :
                /\ aiResponse' = [content |-> text]
                /\ UNCHANGED aiError
                /\ assistResult' = TextResult(Trim(text))
                /\ assistResponse' = routeAnswer(Trim(text))
         ELSE LET text == routeGenerateTemplateBased(body.type, body.pressRelease,
                                                     body.sectionContent)
              IN  /\ aiError' = MessageOf(outcome)
                  /\ UNCHANGED aiResponse
                  /\ assistResult' = [kind |-> "template", text |-> text]
                  /\ assistResponse' = routeAnswer(text)
    /\ ap' = "route:responded"
    /\ UNCHANGED body
    /\ UNCHANGED <<clientVars, routerVars, scoreVars, orchVars>>

NextRoute ==
    routeRejectBody \/ routeAnswerWithoutProvider \/ routeInvokeRouter \/ routeSettled

-----------------------------------------------------------------------------
(* The server: one request to one of the routes *)

InitRequests == InitRun \/ InitAssist \/ InitRoute

NextRequests == NextHandled \/ NextAssist \/ NextRoute

SpecRequests == InitRequests /\ [][NextRequests]_vars

-----------------------------------------------------------------------------
(* Draft storage: src/lib/storage.ts *)

\* The server side of the model is at rest while the client is observed.
ServerIdle ==
    /\ env = [openai |-> "none", claude |-> "none", gemini |-> "none"]
    /\ aiType = "auto"
    /\ pc = "idle"
    /\ model = 0
    /\ lastError = None
    /\ error = None
    /\ claudeError = None
    /\ requests = <<>>
    /\ adapterOut = [p \in Providers |-> None]
    /\ result = None
    /\ sc = "idle"
    /\ argInput = [industry |-> <<>>, description |-> <<>>, features |-> <<>>]
    /\ argTrends = <<>>
    /\ argAngle = "trend-aligned"
    /\ assessment = None
    /\ HandlersIdle

DraftIds == {"a", "b"}

\* A date of a PressRelease (Date | string): a Date object or its ISO string.
DateValues == {[kind |-> "Date", iso |-> "d1"], [kind |-> "string", iso |-> "d1"]}

\* The drafts given to saveDraft: id, title and releaseDate stand for the
\* fields of a PressRelease.
Drafts == [id : DraftIds, title : {"t1", "t2"}, releaseDate : DateValues]

\* JSON.parse(JSON.stringify(d)): a Date is written by toJSON as its ISO
\* string and read back as a string.
JSONRoundTripDraft(d) ==
    [d EXCEPT !.releaseDate = [kind |-> "string", iso |-> d.releaseDate.iso]]

JSONRoundTripDrafts(list) == [i \in DOMAIN list |-> JSONRoundTripDraft(list[i])]

\* getDrafts: [] on the server and without the item, else the parsed item
\* (the item is what setItem wrote, so JSON.parse does not throw).
getDrafts ==
    IF ~hasWindow THEN <<>>
    ELSE IF ~stored.present THEN <<>>
    ELSE stored.drafts

\* drafts.findIndex(d => d.id === id): 0 stands for -1.
findIndex(list, id) ==
    IF \E i \in DOMAIN list : list[i].id = id
    THEN CHOOSE i \in DOMAIN list :
             list[i].id = id /\ \A j \in DOMAIN list : list[j].id = id => i <= j
    ELSE 0

\* drafts.filter(d => d.id !== id)
WithoutDraft(list, id) ==
    LET Keep(d) == d.id # id IN SelectSeq(list, Keep)

\* getDraftById: drafts.find(d => d.id === id) || null
getDraftById(id) ==
    LET drafts == getDrafts
    IN  IF findIndex(drafts, id) = 0 THEN None ELSE drafts[findIndex(drafts, id)]

\* localStorage.setItem returns, or throws (QuotaExceededError, SecurityError).
SetItemOutcomes == {"stored", "threw"}

InitDrafts ==
    /\ ServerIdle
    /\ hasWindow \in BOOLEAN
    /\ stored = NoItem
    /\ saved = [id \in DraftIds |-> None]
    /\ sections = <<>>
    /\ usedIds = {}
    /\ inflight = <<>>

\* saveDraft(pressRelease): nothing on the server; else the draft replaces
\* the one with its id or is pushed, and the list is written; an exception
\* of setItem is logged by the catch and the item stays as it was.
saveDraft ==
    \E pressRelease \in Drafts, outcome \in SetItemOutcomes :
        /\ saved' = [saved EXCEPT ![pressRelease.id] = pressRelease]
        /\ IF ~hasWindow THEN UNCHANGED stored
           ELSE LET drafts == getDrafts
                    existingIndex == findIndex(drafts, pressRelease.id)
                    updated == IF existingIndex > 0
                               THEN [drafts EXCEPT ![existingIndex] = pressRelease]
                               ELSE Append(drafts, pressRelease)
                IN  IF outcome = "stored"
                    THEN stored' = Item(JSONRoundTripDrafts(updated))
                    ELSE UNCHANGED stored
        /\ UNCHANGED <<hasWindow, editorVars>>
        /\ UNCHANGED <<routerVars, scoreVars, handlerVars>>

\* deleteDraft(id): nothing on the server; else the list without the drafts
\* of that id is written; an exception of setItem is logged by the catch.
deleteDraft ==
    \E id \in DraftIds, outcome \in SetItemOutcomes :
        /\ saved' = [saved EXCEPT ![id] = None]
        /\ IF ~hasWindow THEN UNCHANGED stored
           ELSE IF outcome = "stored"
                THEN stored' = Item(JSONRoundTripDrafts(WithoutDraft(getDrafts, id)))
                ELSE UNCHANGED stored
        /\ UNCHANGED <<hasWindow, editorVars>>
        /\ UNCHANGED <<routerVars, scoreVars, handlerVars>>

NextDrafts == saveDraft \/ deleteDraft

SpecDrafts == InitDrafts /\ [][NextDrafts]_vars

-----------------------------------------------------------------------------
(* Editor: the sections of EditorForm and the AI assist of SectionEditor *)

MaxSections == 2

MaxInFlight == 1

SectionIds == 1..MaxSections

\* What the user types into the content of a section.
TypedContents == {"typed"}

\* What onAIAssist resolves to: data.result of the assist route, or null.
AssistResults == {"ai", "null"}

\* handleAddSection's newSection (type, title and order are left out).
NewSection(id) == [id |-> id, content |-> ""]

\* handleUpdateSection(id, {content}) over the sections of a render.
handleUpdateSection(rendered, id, text) ==
    [i \in DOMAIN rendered |->
        IF rendered[i].id = id THEN [rendered[i] EXCEPT !.content = text]
        ELSE rendered[i]]

\* handleDeleteSection(id) over the sections of a render.
handleDeleteSection(rendered, id) ==
    LET Keep(section) == section.id # id IN SelectSeq(rendered, Keep)

Rendered(id) == \E i \in DOMAIN sections : sections[i].id = id

InFlight == {id \in SectionIds : inflight[id] # None}

InitEditor ==
    /\ ServerIdle
    /\ hasWindow = TRUE
    /\ stored = NoItem
    /\ saved = <<>>
    /\ sections = <<>>
    /\ usedIds = {}
    /\ inflight = [id \in SectionIds |-> None]

\* The user adds a section: generateId hands out an id not used before.
AddSection ==
    /\ usedIds # SectionIds
    /\ LET id == CHOOSE i \in SectionIds \ usedIds :
                     \A j \in SectionIds \ usedIds : i <= j
       IN  /\ sections' = Append(sections, NewSection(id))
           /\ usedIds' = usedIds \cup {id}
    /\ UNCHANGED <<inflight, draftVars>>
    /\ UNCHANGED <<routerVars, scoreVars, handlerVars>>

\* The user types into a section: onUpdate of the current render.
EditSection ==
    \E id \in SectionIds, text \in TypedContents :
        /\ Rendered(id)
        /\ sections' = handleUpdateSection(sections, id, text)
        /\ UNCHANGED <<usedIds, inflight, draftVars>>
        /\ UNCHANGED <<routerVars, scoreVars, handlerVars>>

\* The user deletes a section: onDelete of the current render.
DeleteSection ==
    \E id \in SectionIds :
        /\ Rendered(id)
        /\ sections' = handleDeleteSection(sections, id)
        /\ UNCHANGED <<usedIds, inflight, draftVars>>
        /\ UNCHANGED <<routerVars, scoreVars, handlerVars>>

\* The user clicks the AI button of a section (enabled while its
\* isGenerating is false): handleAIAssist of the current render runs up to
\* its await; the handlers it holds are those of this render.
ClickAIAssist ==
    \E id \in SectionIds :
        /\ Rendered(id) /\ inflight[id] = None
        /\ Cardinality(InFlight) < MaxInFlight
        /\ inflight' = [inflight EXCEPT ![id] = [sections |-> sections]]
        /\ UNCHANGED <<sections, usedIds, draftVars>>
        /\ UNCHANGED <<routerVars, scoreVars, handlerVars>>

\* The await of onAIAssist settles: with a result, onUpdate({content})
\* of the render that started the request maps that render's sections and
\* updatePressRelease puts the list in place of the store's.
AssistResolves ==
    \E id \in SectionIds, res \in AssistResults :
        /\ inflight[id] # None
        /\ IF res # "null"
           THEN sections' = handleUpdateSection(inflight[id].sections, id, res)
           ELSE UNCHANGED sections
        /\ inflight' = [inflight EXCEPT ![id] = None]
        /\ UNCHANGED <<usedIds, draftVars>>
        /\ UNCHANGED <<routerVars, scoreVars, handlerVars>>

NextEditor ==
    AddSection \/ EditSection \/ DeleteSection \/ ClickAIAssist \/ AssistResolves

SpecEditor == InitEditor /\ [][NextEditor]_vars

-----------------------------------------------------------------------------
(* Claims about the router *)

Order == <<"openai", "claude", "gemini">>

Rank(p) == CHOOSE i \in 1..3 : Order[i] = p

Configured(p) == Truthy(env[p])

Tried(p) == adapterOut[p] # None

Failed(p) == adapterOut[p].kind = "error"

Succeeded(p) == adapterOut[p].kind = "returned"

\* q is the first configured provider after p in the order.
NextConfigured(p, q) ==
    /\ Configured(q)
    /\ Rank(p) < Rank(q)
    /\ \A r \in Providers : Rank(p) < Rank(r) /\ Rank(r) < Rank(q) => ~Configured(r)

AutoDone == aiType = "auto" /\ pc = "done"

\* C1: in auto mode the providers are tried in the order OpenAI, Claude,
\* Gemini, unconfigured ones skipped; a tried provider that failed, with
\* whatever failure kind (a timeout included), is followed by the next
\* configured provider; the call returns the text of the first provider that
\* succeeded and does not throw then.  With OpenAI rate-limited and Claude
\* succeeding the caller gets Claude's text.
C1_AutoFallbackOrder ==
    /\ \A i, j \in 1..Len(requests) :
         i < j => Rank(requests[i][1]) <= Rank(requests[j][1])
    /\ aiType = "auto" => \A p \in Providers : Tried(p) => Configured(p)
    /\ AutoDone =>
         /\ \A p, q \in Providers :
              Tried(q) /\ Configured(p) /\ Rank(p) < Rank(q) => Failed(p)
         /\ \A p, q \in Providers :
              Failed(p) /\ NextConfigured(p, q) => Tried(q)
         /\ \A p \in Providers : Succeeded(p) => result = adapterOut[p]
         /\ ( /\ Configured("openai") /\ Configured("claude")
              /\ Failed("openai") /\ FailureKind(adapterOut.openai) = "RateLimited"
              /\ Succeeded("claude") )
            => result = Returned(adapterOut.claude.content)

C1_Witness ==
    /\ AutoDone
    /\ Failed("openai") /\ FailureKind(adapterOut.openai) = "RateLimited"
    /\ Succeeded("claude")
    /\ result.kind = "returned"

C1_WitnessTimeout ==
    /\ AutoDone
    /\ Failed("openai") /\ FailureKind(adapterOut.openai) = "Timeout"
    /\ Failed("claude")
    /\ Succeeded("gemini")

\* C2: auto mode with no credential configured throws the
\* no-provider-configured error and issues no provider request.
C2_NoProviderConfigured ==
    (aiType = "auto" /\ \A p \in Providers : env[p] = "none") =>
        /\ requests = <<>>
        /\ \A p \in Providers : ~Tried(p)
        /\ pc = "done" => result = NoProviderConfigured

C2_Witness ==
    /\ AutoDone
    /\ \A p \in Providers : env[p] = "none"
    /\ result.kind = "error"

\* C3: with an explicit provider only that provider is requested; without
\* its credential the call throws at once with no request; a failure of that
\* provider is thrown to the caller and no other provider is tried, whatever
\* else is configured.
C3_ExplicitOnly ==
    aiType # "auto" =>
        /\ \A i \in 1..Len(requests) : requests[i][1] = aiType
        /\ \A p \in Providers : p # aiType => ~Tried(p)
        /\ ~Configured(aiType) /\ pc = "done" =>
               result = MissingCredential(aiType) /\ requests = <<>>
        /\ Failed(aiType) => pc = "done" /\ result = adapterOut[aiType]

C3_Witness ==
    /\ aiType = "openai"
    /\ Configured("claude") /\ Configured("gemini")
    /\ Failed("openai")
    /\ pc = "done"

C3_WitnessMissing ==
    /\ aiType = "claude"
    /\ ~Configured("claude") /\ Configured("openai")
    /\ pc = "done"

\* The configured provider that comes last in the order.
LastConfigured ==
    CHOOSE p \in Providers :
        Configured(p) /\ \A q \in Providers : Configured(q) => Rank(q) <= Rank(p)

\* C4: in auto mode the call throws only when no provider is configured or
\* every configured provider was tried and failed, and the error thrown is
\* then the failure of the provider tried last.
C4_ThrowsOnlyWhenExhausted ==
    (AutoDone /\ result.kind = "error") =>
        \/ /\ \A p \in Providers : ~Configured(p)
           /\ result = NoProviderConfigured
        \/ /\ \E p \in Providers : Configured(p)
           /\ \A p \in Providers : Configured(p) => Failed(p)
           /\ result = adapterOut[LastConfigured]

C4_Witness ==
    /\ AutoDone
    /\ Configured("openai") /\ Configured("claude") /\ ~Configured("gemini")
    /\ Failed("openai") /\ Failed("claude")
    /\ adapterOut.openai.resp # adapterOut.claude.resp
    /\ result = adapterOut.claude

\* C5 as claimed: a further Gemini model is requested only after a
\* model-unavailable (404) result; any other failure ends the adapter call.
C5_Only404Advances ==
    (pc = "gemini" /\ model > 1) => FailureKind(lastError) = "ModelUnavailable"

\* C5 as amended: a failure of any kind on a model that is not the last is
\* followed by a request of the next model; the adapter call ends with a
\* failure only after the last model of the list failed (or, before any
\* request, when the key is missing), and a success ends it with no further
\* request.
C5_AnyFailureAdvances ==
    /\ (pc = "gemini" /\ model > 1) =>
          /\ lastError.kind = "error"
          /\ lastError.model = model - 1
          /\ requests[Len(requests)] = <<"gemini", model>>
    /\ (Failed("gemini") /\ adapterOut.gemini.resp # "missingCredential") =>
          /\ model = NumModels
          /\ lastError.model = NumModels
    /\ (Failed("gemini") /\ adapterOut.gemini.resp = "missingCredential") =>
          \A i \in 1..Len(requests) : requests[i][1] # "gemini"
    /\ Succeeded("gemini") =>
          /\ pc = "done"
          /\ requests[Len(requests)] = <<"gemini", model>>

C5_Witness ==
    /\ pc = "gemini"
    /\ model = 3
    /\ lastError.kind = "error"
    /\ FailureKind(lastError) = "RateLimited"

\* The place of a request in the order of providers and models.
Position(req) == Rank(req[1]) * (NumModels + 1) + req[2]

\* C6: within one call no provider/model pair is requested twice: the
\* requests go strictly forward through the providers and, inside the Gemini
\* adapter, through the models.
C6_NoRetry ==
    \A i, j \in 1..Len(requests) :
        i < j => Position(requests[i]) < Position(requests[j])

C6_Witness ==
    /\ pc = "done"
    /\ Len(requests) = 2 + NumModels
    /\ result.kind = "error"

-----------------------------------------------------------------------------
(* Claims about the scorer *)

Scored == sc = "scored"

B(p) == IF p THEN 1 ELSE 0

\* Some keyword of the industry string occurs in some trend, letter case
\* ignored.
IndustryOverlaps ==
    /\ argInput.industry # <<>>
    /\ \E t \in Elements(argTrends) :
         \E k \in Elements(Split(ToLowerCase(argInput.industry), IndustrySeparators)) :
            Includes(ToLowerCase(t), k)

\* Some keyword of the description occurs in some trend, letter case ignored.
DescriptionOverlaps ==
    \E t \in Elements(argTrends) :
        \E k \in Elements(extractKeywords(argInput.description)) :
            Includes(ToLowerCase(t), ToLowerCase(k))

\* The first three characters of some feature occur in some trend.
FeatureOverlaps ==
    \E f \in Elements(argInput.features) :
        \E t \in Elements(argTrends) :
            Includes(ToLowerCase(t), ToLowerCase(SubSeq(f, 1, Min(3, Len(f)))))

KeywordHit(keywords, texts) ==
    \E k \in Elements(keywords) : \E text \in texts : Includes(text, k)

\* The angle bonus as the claims state it.
ClaimedAngleBonus ==
    CASE argAngle = "social-issue" ->
            IF KeywordHit(socialKeywords, {argInput.description} \cup Elements(argInput.features))
            THEN 20 ELSE 0
      [] argAngle = "trend-aligned" -> 20
      [] argAngle = "seasonal" ->
            IF KeywordHit(seasonalKeywords, {argInput.description}) THEN 20 ELSE 10
      [] argAngle = "unique-story" ->
            IF KeywordHit(uniqueKeywords, {argInput.description} \cup Elements(argInput.features))
            THEN 20 ELSE 0
      [] argAngle = "industry-innovative" ->
            IF argInput.industry # <<>> THEN 20 ELSE 0

\* The score of the industry, description and feature checks.
BaseScore ==
    30 * B(IndustryOverlaps) + 30 * B(DescriptionOverlaps) + 20 * B(FeatureOverlaps)

\* C7: the returned score lies in [0,100] and isCompatible is true exactly
\* when the returned score is at least 30.
C7_ScoreRangeAndThreshold ==
    Scored =>
        /\ assessment.score \in 0..100
        /\ assessment.isCompatible <=> assessment.score >= 30

C7_Witness == Scored /\ assessment.score = 30 /\ assessment.isCompatible

C7_WitnessBelow == Scored /\ assessment.score = 20 /\ ~assessment.isCompatible

C7_WitnessMax == Scored /\ assessment.score = 100

\* C8: for trend-aligned the angle check adds exactly 20 and its reason,
\* whatever the input and the trends, so the score is never below 20.
C8_TrendAlignedBonus ==
    (Scored /\ argAngle = "trend-aligned") =>
        /\ assessment.score = BaseScore + 20
        /\ assessment.score >= 20
        /\ Len(assessment.reasons) >= 1
        /\ assessment.reasons[Len(assessment.reasons)]
               = AngleReason("trend-aligned fits", <<>>)

C8_Witness ==
    /\ Scored
    /\ argAngle = "trend-aligned"
    /\ argTrends # <<>>
    /\ BaseScore = 0
    /\ assessment.score = 20

\* C9: the score is the capped sum of the components that fired: 30 for the
\* industry, 30 for the description, 20 for a feature, and the bonus of the
\* angle.
C9_ScoreIsCappedSum ==
    Scored => assessment.score = Min(100, BaseScore + ClaimedAngleBonus)

C9_Witness ==
    /\ Scored
    /\ argAngle = "seasonal"
    /\ ~KeywordHit(seasonalKeywords, {argInput.description})
    /\ IndustryOverlaps /\ ~DescriptionOverlaps /\ FeatureOverlaps
    /\ assessment.score = 60

\* C10: the reasons are those of the checks that fired, in the order
\* industry, description, feature, angle.
C10_ReasonOrder ==
    Scored =>
        LET Fired(check) ==
                CASE check = "industry" -> IndustryOverlaps
                  [] check = "description" -> DescriptionOverlaps
                  [] check = "feature" -> FeatureOverlaps
                  [] check = "angle" -> ClaimedAngleBonus > 0
        IN  [i \in 1..Len(assessment.reasons) |-> assessment.reasons[i].check]
                = SelectSeq(<<"industry", "description", "feature", "angle">>, Fired)

C10_Witness ==
    /\ Scored
    /\ Len(assessment.reasons) = 4
    /\ assessment.reasons[1].check = "industry"
    /\ assessment.reasons[4].check = "angle"

C10_WitnessSubset ==
    /\ Scored
    /\ Len(assessment.reasons) = 2
    /\ assessment.reasons[1].check = "description"
    /\ assessment.reasons[2].check = "angle"

-----------------------------------------------------------------------------
(* Claims about the proposal orchestrator *)

IndexOf(a) == CHOOSE i \in 1..Len(angles) : angles[i] = a

\* The loop has finished the iteration of angle a.
Processed(a) == op # "idle" /\ IndexOf(a) < angleIx

\* The loop has computed the score of angle a.
Scoring(a) == op # "idle" /\ scores[a] >= 0

ScoreOf(a) == scores[a]

AnyCredential == \E p \in Providers : env[p] # "none"

ProposalsFor(a) == {i \in 1..Len(proposals) : proposals[i].angle = a}

Responded == op = "responded"

SkipRule(a) == ScoreOf(a) < 10 /\ AnyCredential /\ a # "trend-aligned"

C11_WitnessNoCredential ==
    /\ Responded
    /\ ~AnyCredential
    /\ \E a \in Angles : ScoreOf(a) < 10 /\ ProposalsFor(a) # {}

\* The summary of generateWithAI used by the orchestrator agrees with the
\* router: a call returns a text only where CanReturn says it can.
CanReturnAgrees ==
    (pc = "done" /\ result.kind = "returned") => CanReturn(env, aiType)

\* ... and throws only the errors ThrownErrors names.
ThrownErrorsAgree ==
    (pc = "done" /\ result.kind = "error") => result \in ThrownErrors(env, aiType)

AllCallsFailed == \A a \in Angles : routerCalls[a] \in {"none", "failed"}

OnePerAngle(list) ==
    /\ Len(list) = Len(angles)
    /\ \A i \in 1..Len(list) : list[i].angle = angles[i]

KeptAngles == SelectSeq(angles, LAMBDA a : ScoreOf(a) >= 10)

C12_WitnessFive ==
    /\ Responded /\ AnyCredential /\ AllCallsFailed
    /\ \E a \in Angles : routerCalls[a] = "failed"
    /\ Len(response.proposals) = 5

\* C13: an angle whose generateWithAI call failed, or whose provider text
\* could not be parsed (a syntax error, or null), has exactly one proposal,
\* built by the template and carrying the angle's score; the run answers
\* with success.
C13_TemplateOnFailure ==
    /\ \A a \in Angles :
         (Processed(a) /\ (routerCalls[a] = "failed" \/ content[a] \in {"null", "invalid"})) =>
             /\ Cardinality(ProposalsFor(a)) = 1
             /\ \A i \in ProposalsFor(a) :
                  /\ proposals[i].source = "template"
                  /\ proposals[i].compatibilityScore = ScoreOf(a)
    /\ \A a \in Angles : Processed(a) /\ routerCalls[a] # "none" => ProposalsFor(a) # {}
    /\ Responded => response.success /\ response.status = 200

C13_Witness ==
    /\ Responded
    /\ \E a \in Angles : routerCalls[a] = "failed"
    /\ \E a \in Angles : content[a] = "invalid"
    /\ \E a \in Angles : content[a] = "null"

Generated(i) == proposals[i]

\* C14: the answer holds exactly the generated proposals whose score is at
\* least 10, in their order; if there is none of them among a non-empty
\* generated list, the answer holds one proposal and no generated proposal
\* has a higher score; the answer is empty only if nothing was generated.
C14_FilterKeepsBest ==
    Responded =>
        LET returned == response.proposals
            passing == SelectSeq(proposals, LAMBDA p : p.compatibilityScore >= 10)
        IN  /\ passing # <<>> => returned = passing
            /\ passing = <<>> /\ proposals # <<>> =>
                 /\ Len(returned) = 1
                 /\ \E i \in 1..Len(proposals) : returned[1] = proposals[i]
                 /\ \A i \in 1..Len(proposals) :
                      proposals[i].compatibilityScore <= returned[1].compatibilityScore
            /\ returned = <<>> => proposals = <<>>
            /\ response.totalGenerated = Len(proposals)

C14_Witness ==
    /\ Responded
    /\ Len(response.proposals) < Len(proposals)
    /\ Len(response.proposals) > 0

IsUmbrellaRequest == argInput = SmartUmbrella /\ argTrends = AITrends

\* C15: for the smart-umbrella input against the trends "AI technology" and
\* "sustainability" the trend-aligned assessment has no industry,
\* description or feature hit, scores exactly 20 and is not compatible; the
\* trend-aligned proposal is generated and returned all the same, with or
\* without a credential.
C15_UmbrellaTrendAligned ==
    IsUmbrellaRequest =>
        /\ Processed("trend-aligned") =>
             \E i \in 1..Len(proposals) :
                 /\ proposals[i].angle = "trend-aligned"
                 /\ proposals[i].compatibilityScore = 20
                 /\ ~proposals[i].isCompatible
        /\ Responded =>
             \E i \in 1..Len(response.proposals) :
                 /\ response.proposals[i].angle = "trend-aligned"
                 /\ response.proposals[i].compatibilityScore = 20
                 /\ ~response.proposals[i].isCompatible

C15_Witness ==
    /\ IsUmbrellaRequest /\ Responded /\ AnyCredential
    /\ \E i \in 1..Len(response.proposals) :
         response.proposals[i].angle = "trend-aligned" /\ response.proposals[i].source = "ai"

C15_WitnessNoCredential ==
    /\ IsUmbrellaRequest /\ Responded /\ ~AnyCredential
    /\ \E i \in 1..Len(response.proposals) :
         response.proposals[i].angle = "trend-aligned" /\ response.proposals[i].source = "template"

-----------------------------------------------------------------------------
(* Claims about the assist route *)

AssistResponded == ap = "responded"

\* The title task got a text from a provider and has answered.
TitleSettled == AssistResponded /\ body.type = "title" /\ aiResponse # None

\* The proposals list of a JSON document, as JSON.parse gives it.
HasProposalsList(text) ==
    /\ JSONparse(text).ok
    /\ JSONparse(text).val.t = "obj"
    /\ Member(JSONparse(text).val, "proposals").t = "arr"

ProposalsListOf(text) == Member(JSONparse(text).val, "proposals").v

\* C16 as stated: a provider text that is a valid JSON object with a
\* proposals list gives that list, and the same JSON in a fenced code block
\* within prose gives the list of the unwrapped JSON.
C16_JsonRoundTrip ==
    TitleSettled =>
        /\ HasProposalsList(aiResponse.content) =>
               assistResult = ProposalsResult(ProposalsListOf(aiResponse.content))
        /\ \A document \in JsonDocuments :
               HasProposalsList(document) /\ aiResponse.content = InFence(document) =>
                   assistResult = ProposalsResult(ProposalsListOf(document))

\* No layer of JSON parsing gave a value whose properties can be read.
ParseLayersFail ==
    LET parsed == JSONparse(jsonString(Trim(aiResponse.content)))
    IN  ~parsed.ok \/ parsed.val = JNull

TrimmedLines == [i \in 1..Len(NonBlankLines(Trim(aiResponse.content))) |->
                    Trim(NonBlankLines(Trim(aiResponse.content))[i])]

IsMarked(line) == IsDigit(line[1]) \/ line[1] \in {"-", "bullet"}

\* The text of a marked line after the mark and the blanks that follow it.
AfterMark(line) == SubSeq(line, SkipSpace(line, 2), Len(line))

TitlesOf(list) == [i \in 1..Len(list) |-> Member(list[i], "title").v]

\* C17 as stated: when no parse layer succeeds, the proposals are the lines
\* that begin with a digit, dash or bullet and whose title has 5 to 200
\* characters, in their order, at most 5.
C17_OnlyMarkedLines ==
    LET claimed == SelectSeq(TrimmedLines,
                             LAMBDA line : /\ IsMarked(line) /\ Len(line) >= 2
                                           /\ Length(AfterMark(line)) >= 5
                                           /\ Length(AfterMark(line)) <= 200)
    IN  (TitleSettled /\ ParseLayersFail /\ claimed # <<>>) =>
            /\ assistResult.kind = "proposals"
            /\ Len(assistResult.proposals) = Min(5, Len(claimed))
            /\ \A i \in 1..Len(assistResult.proposals) :
                 TitlesOf(assistResult.proposals)[i] = AfterMark(claimed[i])

\* A marked line whose text after the mark has 6 to 199 characters.
MarkedTitle(line) ==
    /\ IsMarked(line) /\ Len(line) >= 2
    /\ Length(AfterMark(line)) >= 6 /\ Length(AfterMark(line)) <= 199

\* Any other line of 6 to 199 characters that does not open with a label
\* bracket and holds no full-width colon.
PlainTitle(line) ==
    /\ ~MarkedTitle(line)
    /\ Length(line) >= 6 /\ Length(line) <= 199
    /\ line[1] # "lbr"
    /\ "fwcolon" \notin Elements(line)

\* C17: when no parse layer succeeds, every non-blank line gives a
\* proposal if it is marked and its text after the mark has 6 to 199
\* characters (the title is that text), or else if the whole line has 6 to
\* 199 characters, opens with no label bracket and holds no full-width
\* colon (the title is the line); the proposals keep the order of the lines
\* and are cut to 5.  A text of exactly 3 numbered lines of such length
\* gives exactly 3 proposals in the order of the lines.
C17_LineScan ==
    LET kept == SelectSeq(TrimmedLines, LAMBDA line : MarkedTitle(line) \/ PlainTitle(line))
    IN  (TitleSettled /\ ParseLayersFail /\ kept # <<>>) =>
            /\ assistResult.kind = "proposals"
            /\ Len(assistResult.proposals) = Min(5, Len(kept))
            /\ \A i \in 1..Len(assistResult.proposals) :
                 TitlesOf(assistResult.proposals)[i] =
                     IF MarkedTitle(kept[i]) THEN AfterMark(kept[i]) ELSE kept[i]
            /\ (Len(TrimmedLines) = 3 /\ \A i \in 1..3 : MarkedTitle(TrimmedLines[i])) =>
                 /\ Len(assistResult.proposals) = 3
                 /\ \A i \in 1..3 :
                      TitlesOf(assistResult.proposals)[i] = AfterMark(TrimmedLines[i])
            /\ assistResponse.success
            /\ assistResponse.proposals = assistResult.proposals

C17_Witness ==
    /\ TitleSettled /\ ParseLayersFail
    /\ aiResponse.content = ThreeNumbered
    /\ Len(assistResponse.proposals) = 3

C17_WitnessPlainLine ==
    /\ TitleSettled /\ ParseLayersFail
    /\ Len(TrimmedLines) = 4
    /\ Len(assistResponse.proposals) = 4
    /\ ~IsMarked(TrimmedLines[1])

C17_WitnessCap ==
    /\ TitleSettled /\ ParseLayersFail
    /\ aiResponse.content = SixNumbered
    /\ Len(assistResponse.proposals) = 5

\* A later layer has something to give: a line that yields a title, or a
\* first line, fenced blocks left out, of 1 to 199 characters.
LaterLayerCanProduce ==
    \/ Len(extractedTitles(Trim(aiResponse.content))) > 0
    \/ ( /\ Length(cleanTitle(Trim(aiResponse.content))) > 0
         /\ Length(cleanTitle(Trim(aiResponse.content))) < 200 )

\* C18 as stated: the title task fails on a provider text only when no
\* layer, down to the first cleaned line, gives a proposal; whenever a
\* later layer can give one, the request succeeds with a non-empty list of
\* proposals.
C18_FailsOnlyWhenExhausted ==
    TitleSettled =>
        /\ ~assistResponse.success => ~LaterLayerCanProduce
        /\ LaterLayerCanProduce =>
             /\ assistResponse.success
             /\ "proposals" \in DOMAIN assistResponse
             /\ Len(assistResponse.proposals) > 0

AnyUsableKey == env.openai = "set" \/ env.claude = "set" \/ env.gemini = "set"

TitleResponded == AssistResponded /\ body.type = "title" /\ body.pressRelease # None

\* C19: the title task never answers from the template: without a usable
\* key it is refused with status 400 and the message that asks for a key; a
\* failure of the provider call or of the extraction ends in status 500
\* with a message other than that one; a success carries what was
\* extracted from a provider's text.
C19_TitleFailureIsFatal ==
    TitleResponded =>
        /\ assistResult = None \/ assistResult.kind # "template"
        /\ ~AnyUsableKey => assistResponse = Failure(400, NoCredentialMessage)
        /\ aiError # None =>
             /\ ~assistResponse.success
             /\ assistResponse.status = 500
             /\ assistResponse.error # NoCredentialMessage
        /\ assistResponse.success => aiResponse # None /\ aiError = None

C19_Witness ==
    /\ TitleResponded /\ AnyUsableKey
    /\ aiError # None /\ aiResponse = None
    /\ assistResponse.status = 500

C19_WitnessExtraction ==
    /\ TitleResponded
    /\ aiError = ExtractionMessage /\ aiResponse # None
    /\ assistResponse.status = 500

C19_WitnessNoCredential ==
    /\ TitleResponded /\ ~AnyUsableKey
    /\ assistResponse.status = 400

\* C20 as stated: a well-formed introduction or section request always
\* gets a success with a non-empty result.
C20_AlwaysUsableResult ==
    (AssistResponded /\ body.type \in {"introduction", "section"} /\ body.pressRelease # None) =>
        /\ assistResponse.success
        /\ "result" \in DOMAIN assistResponse
        /\ Trim(assistResponse.result) # <<>>

-----------------------------------------------------------------------------
(* Claims about the routes without a credential *)

NoCredential == env.openai = "none" /\ env.claude = "none" /\ env.gemini = "none"

WellFormedInput == inputShape = TypedInput /\ ~InputInvalid

RouteResponded == ap = "route:responded"

WellFormedTask == body.pressRelease # None /\ body.type \in {"introduction", "section"}

\* C21: without any credential no call of generateWithAI is made by the
\* proposals route or by the assist route; a well-formed proposals request
\* is answered with success and one template proposal for each of the five
\* angles; a well-formed introduction or section request is answered with
\* success and the text of the template.
C21_TemplateWithoutCredential ==
    NoCredential =>
        /\ op # "awaiting" /\ ap # "route:awaiting"
        /\ \A a \in DOMAIN routerCalls : routerCalls[a] = "none"
        /\ aiResponse = None /\ aiError = None
        /\ (op = "responded" /\ WellFormedInput) =>
             /\ response.success /\ response.status = 200
             /\ Len(proposals) = Len(angles)
             /\ \A i \in 1..Len(proposals) :
                  proposals[i].angle = angles[i] /\ proposals[i].source = "template"
             /\ Len(response.proposals) > 0
        /\ (RouteResponded /\ WellFormedTask) =>
             /\ assistResponse.success /\ assistResponse.status = 200
             /\ assistResult.kind = "template"
             /\ assistResponse.result =
                  routeGenerateTemplateBased(body.type, body.pressRelease, body.sectionContent)

C21_Witness ==
    /\ NoCredential /\ op = "responded" /\ WellFormedInput
    /\ Len(response.proposals) > 0

C21_WitnessAssist ==
    /\ NoCredential /\ RouteResponded /\ WellFormedTask
    /\ assistResponse.success

-----------------------------------------------------------------------------
(* Claims about a run of the proposals route *)

\* C22 as stated: once the caller has given up the run, no generateWithAI
\* call is outstanding, be it one that was in flight or one started for a
\* later angle.
C22_AbandonStopsRequests == abandoned => op # "awaiting"

RunResponded == op = "responded"

RunAccepted == op \in {"angle", "awaiting", "responded"} /\ ~InputInvalid

\* The number of proposals for angle a in the list.
CountFor(a) == Cardinality({i \in 1..Len(proposals) : proposals[i].angle = a})

\* The stages of one angle, read from the history of the run: the router
\* is called only for a scored angle, the provider text is parsed only
\* after the call returned, a proposal is pushed only for a scored angle
\* that was not skipped, and at most once.
StageOrder ==
    \A a \in DOMAIN ended :
        /\ routerCalls[a] # "none" => scores[a] >= 0
        /\ content[a] # "none" => routerCalls[a] = "returned"
        /\ routerCalls[a] = "pending" => ended[a] = "none" /\ op = "awaiting" /\ argAngle = a
        /\ ended[a] = "pushed" => scores[a] >= 0 /\ CountFor(a) = 1
        /\ ended[a] # "pushed" => CountFor(a) = 0
        /\ ended[a] = "skipped" => routerCalls[a] = "none"
        /\ ended[a] # "none" => routerCalls[a] # "pending"

AllAnglesEnded == \A a \in Angles : ended[a] \in {"skipped", "pushed", "threw"}

\* C23 as stated: the stages of an angle keep their order, and a run that
\* passed validation ends with every angle that was not skipped holding
\* exactly one proposal.
C23_EveryAngleOneProposal ==
    /\ []StageOrder
    /\ [](RunAccepted => <>(RunResponded /\ \A a \in Angles :
                               ended[a] # "skipped" => CountFor(a) = 1))

\* C23: the stages of an angle keep their order (the router is never
\* called before the angle is scored, the provider text is never parsed
\* before the call returned), and a run that passed validation ends with
\* every angle ended: skipped, or with exactly one proposal, or, when
\* checkCompatibility or the template threw for it, with none.
C23_StagesInOrder ==
    /\ []StageOrder
    /\ [](RunAccepted => <>(RunResponded /\ AllAnglesEnded))

C23_Witness ==
    /\ RunResponded /\ AllAnglesEnded
    /\ \E a \in Angles : ended[a] = "pushed" /\ content[a] = "value"
    /\ \E a \in Angles : ended[a] = "skipped"

C23_WitnessThrew ==
    /\ RunResponded /\ AllAnglesEnded
    /\ \E a \in Angles : ended[a] = "threw" /\ scores[a] >= 0

AnyKeySet == env.openai = "set" \/ env.claude = "set" \/ env.gemini = "set"

\* The proposal pushed for angle a.
ProposalOf(a) == proposals[CHOOSE i \in 1..Len(proposals) : proposals[i].angle = a]

\* C24 as stated: with a key of OpenAI, Claude or Gemini, every angle that
\* got a proposal had its generateWithAI call, and its proposal is the
\* template's only if the call failed or the text could not be parsed.
C24_RouterBeforeTemplate ==
    AnyKeySet =>
        \A a \in DOMAIN ended :
            ended[a] = "pushed" =>
                /\ routerCalls[a] \in {"returned", "failed"}
                /\ ProposalOf(a).source = "template" =>
                     routerCalls[a] = "failed" \/ content[a] \in {"null", "invalid"}

\* C25: an angle whose processing threw has no proposal, the loop still
\* ends every angle, and the run answers with success.  For an input
\* without features checkCompatibility throws for every angle: no angle is
\* scored and the answer holds no proposal.
C25_AngleErrorContained ==
    /\ \A a \in DOMAIN ended :
         /\ ended[a] = "threw" => CountFor(a) = 0
         /\ (inputShape.features = "missing" /\ ended[a] # "none") =>
                ended[a] = "threw" /\ scores[a] = -1
    /\ (RunResponded /\ ~InputInvalid) =>
         /\ AllAnglesEnded
         /\ response.success /\ response.status = 200
         /\ response.totalGenerated = Cardinality({a \in Angles : ended[a] = "pushed"})

C25_Witness ==
    /\ RunResponded
    /\ ended["social-issue"] = "threw" /\ scores["social-issue"] >= 0
    /\ ended["unique-story"] = "threw" /\ scores["unique-story"] = -1
    /\ ended["industry-innovative"] # "none"
    /\ response.success

C25_WitnessAllThrew ==
    /\ RunResponded /\ inputShape.features = "missing"
    /\ \A a \in Angles : ended[a] = "threw"
    /\ response.success /\ response.proposals = <<>>

BodyInvalid == body.pressRelease = None \/ body.type \notin TaskTypes

\* The input lacks productServiceName or description.
LacksRequired == ~inputShape.productServiceName \/ argInput.description = <<>>

C26_WitnessNoName ==
    /\ op = "responded" /\ ~inputShape.productServiceName
    /\ response.status = 400

C26_WitnessAssist ==
    /\ ap = "responded" /\ body.type = "summary"
    /\ assistResponse.status = 400

C26_WitnessRoute ==
    /\ ap = "route:responded" /\ body.pressRelease = None
    /\ assistResponse.status = 400

-----------------------------------------------------------------------------
(* C27 *)

\* The Error that reached toAppError in the outer catch of the assist
\* route: the one the title task threw on.
ErrorConverted == TitleError(aiError)

GeminiErrorConverted ==
    /\ AssistResponded /\ body.type = "title" /\ aiError # None
    /\ MessageIncludes(ErrorConverted, "Gemini")

\* The message the Gemini branch gives for an Error.
GeminiSpecificMessage(m) ==
    IF \/ MessageIncludes(m, "API_KEY") \/ MessageIncludes(m, "401")
       \/ MessageIncludes(m, "403")
    THEN GeminiKeyMessage
    ELSE IF MessageIncludes(m, "404") \/ MessageIncludes(m, "model")
    THEN GeminiModelMessage
    ELSE IF \/ MessageIncludes(m, "429") \/ MessageIncludes(m, "quota")
            \/ MessageIncludes(m, "rate limit")
    THEN GeminiRateMessage
    ELSE Prefixed("Gemini API error: ", {"Gemini", "API"}, m)

\* C27: for every Error whose message mentions Gemini, toAppError returns
\* type AI_GENERATION_ERROR with the Gemini-specific message (invalid key,
\* model not found, rate limit, or the raw Gemini message).
C27_GeminiErrorsClassified ==
    GeminiErrorConverted =>
        /\ toAppError(ErrorConverted).type = "AI_GENERATION_ERROR"
        /\ toAppError(ErrorConverted).message = GeminiSpecificMessage(ErrorConverted)
        /\ assistResponse.error = GeminiSpecificMessage(ErrorConverted)

-----------------------------------------------------------------------------
(* C29 *)

\* C29: the list generateProposals builds holds at most one proposal per
\* angle, at most 5 in total, in the fixed order of the angles, and every
\* proposal, from provider output or from the template, carries the score
\* computed for its own angle and isCompatible = (score >= 30).
C29_ProposalListShape ==
    /\ Len(proposals) <= 5
    /\ \A a \in Angles : Cardinality(ProposalsFor(a)) <= 1
    /\ \A i, j \in 1..Len(proposals) :
          i < j => IndexOf(proposals[i].angle) < IndexOf(proposals[j].angle)
    /\ \A i \in 1..Len(proposals) :
          /\ proposals[i].source \in {"ai", "template"}
          /\ proposals[i].compatibilityScore = scores[proposals[i].angle]
          /\ proposals[i].isCompatible
                 <=> (scores[proposals[i].angle] >= 30)

C29_Witness ==
    /\ Responded /\ Len(proposals) = 5
    /\ \E i, j \in 1..Len(proposals) :
          /\ proposals[i].source = "ai" /\ proposals[j].source = "template"
          /\ proposals[i].isCompatible /\ proposals[j].isCompatible

C29_WitnessNotCompatible ==
    /\ Responded /\ Len(proposals) \in 2..4
    /\ \E i, j \in 1..Len(proposals) :
          /\ proposals[i].source = "ai" /\ proposals[j].source = "template"
          /\ ~proposals[i].isCompatible /\ ~proposals[j].isCompatible

-----------------------------------------------------------------------------
(* C28 *)

\* C28: when an AI-assist request for a section completes, applying its
\* result changes only that section's content: the sections are those of
\* the document at that moment (edits of other sections, sections added and
\* sections deleted while the request was in flight are kept), with the
\* content of the request's section, if it is still there, replaced.
C28_OnlyThatSectionChanges ==
    [][\A id \in SectionIds :
          (inflight[id] # None /\ inflight'[id] = None) =>
              \/ sections' = sections
              \/ \E res \in AssistResults \ {"null"} :
                    sections' = handleUpdateSection(sections, id, res)]_vars

-----------------------------------------------------------------------------
(* C30 *)

StoredWithId(id) == {i \in DOMAIN getDrafts : getDrafts[i].id = id}

\* C30: draft storage is a map keyed by draft id: the stored list holds at
\* most one draft per id, and getDraftById(id) returns the draft most
\* recently saved under that id, or null if it was never saved or a
\* deleteDraft(id) came later (so a save or delete of one id leaves the
\* drafts of the other ids as they were).
C30_StorageIsMap ==
    hasWindow =>
        /\ \A id \in DraftIds : Cardinality(StoredWithId(id)) <= 1
        /\ \A id \in DraftIds : getDraftById(id) = saved[id]

====
